---- MODULE Spec2Model ----
(***************************************************************************)
(* Verification model of the Validert post-processing pipeline              *)
(* (backend/app/services/ai_analyzer.py, lambda/pdf_processor.py).          *)
(*                                                                          *)
(* Part I  : score normalization (_load_scoring_model,                      *)
(*           _infer_category_from_rule_id, _hash_evidence_span,             *)
(*           _normalize_scoring_output).                                    *)
(* Part II : point detection (_split_pages, _strip_pdf_noise,               *)
(*           POINT_HEADER_RE, TG_RE, _extract_detected_points).             *)
(* Part III: evidence grounding (_build_evidence_for_component,             *)
(*           _normalize_evidence_items, _merge_evidence_defaults,           *)
(*           _ensure_issue_evidence, _ensure_driver_evidence).              *)
(* Part IV : ordering and feedback assembly (_parse_numeric_id,             *)
(*           _detect_sort_mode, _dedupe_points, _sort_points,               *)
(*           _build_feedback_v11).                                          *)
(* Part V  : the analysis cache and the upload flow around it               *)
(*           (get_cached_analysis, upsert_analysis_cache, upload_report,    *)
(*           the unique index of table document_analysis_cache).            *)
(*                                                                          *)
(* Strings that the code only compares are TLA+ strings; strings that the   *)
(* code takes apart (rule ids, text lines) are sequences of one-character   *)
(* strings, so that splitting and pattern matching are computed.            *)
(***************************************************************************)
EXTENDS Integers, Sequences, FiniteSets, TLC

VARIABLES
    scoring_model_text,   \* content of the scoring-model configuration file
    analysis_output,      \* the model-output object handed to the normalizer
    input_output,         \* analysis_output as it was before normalization
    category_totals,      \* local category_totals at the end of the scan
    has_deductions,       \* local has_deductions at the end of the scan
    pc,                   \* "input" before, "normalized" after the call
    report_text,          \* paginated report text handed to the detector
    detected,             \* result of _extract_detected_points
    dpc,                  \* "input" before, "detected" after the call
    epc,                  \* number of ensure_analysis_evidence calls made
    detected_points,      \* detected_points_payload["points"] as handed to the call
    payload_points,       \* detected_points_payload["points"] as the call leaves it
    sorted_points,        \* result of the _sort_points call of build_feedback_v11
    feedback,             \* result of build_feedback_v11
    fpc,                  \* "input" before, "built" after the call
    cache_table,          \* committed rows of table document_analysis_cache
    next_id,              \* next value of the table's primary-key sequence
    upload,               \* per upload request: the triple its lookup is keyed on
    rpc,                  \* per upload request: its position in upload_report
    cache_entry,          \* per upload request: local cache_entry of upload_report
    analysis,             \* per upload request: the payloads stored with its report
    pending,              \* per upload request: the cache write its session holds
    response,             \* per upload request: the outcome sent to the client
    model_calls,          \* per upload request: invocations of the generative model
    scoring_model_info,   \* local scoring_model_info of upload_report
    loaded_text,          \* the text json.loads was given in _load_scoring_model
    report,               \* the Report row: its status and its overall_score
    credits,              \* committed value of users.credits of the one user
    request,              \* per credit request: its kind and its amount
    cpc,                  \* per credit request: its position in its handler
    user_credits,         \* per credit request: the credits attribute its session holds
    row_lock,             \* the request whose uncommitted UPDATE holds the users row
    worker_detected       \* result of the queue worker's _extract_detected_points

normVars == <<scoring_model_text, analysis_output, input_output,
              category_totals, has_deductions, pc>>
detVars == <<report_text, detected, dpc>>
groundVars == <<epc>>
feedbackVars == <<detected_points, payload_points, sorted_points, feedback, fpc>>
registryVars == <<scoring_model_info, loaded_text>>
reportVars == <<report>>
creditVars == <<credits, request, cpc, user_credits, row_lock>>
workerVars == <<worker_detected>>
pipelineVars == <<normVars, detVars, groundVars, feedbackVars, registryVars>>
cacheVars == <<cache_table, next_id, upload, rpc, cache_entry, analysis,
               pending, response, model_calls>>
vars == <<scoring_model_text, analysis_output, input_output,
          category_totals, has_deductions, pc, report_text, detected, dpc,
          epc, detected_points, payload_points, sorted_points, feedback, fpc,
          cache_table, next_id, upload, rpc, cache_entry, analysis,
          pending, response, model_calls, scoring_model_info, loaded_text,
          report, credits, request, cpc, user_credits, row_lock,
          worker_detected>>

----------------------------------------------------------------------------
(* Bounds *)

MaxComponents == 2
MaxDeductions == 2

----------------------------------------------------------------------------
(* Generic helpers *)

Min(a, b) == IF a < b THEN a ELSE b
Max(a, b) == IF a > b THEN a ELSE b

Get(d, k, default) == IF k \in DOMAIN d THEN d[k] ELSE default

SeqsUpTo(S, n) == UNION {[1..k -> S] : k \in 0..n}

RECURSIVE SumSet(_, _)
SumSet(f, S) ==
    IF S = {} THEN 0
    ELSE LET x == CHOOSE y \in S : TRUE IN f[x] + SumSet(f, S \ {x})

RECURSIVE SumSeq(_)
SumSeq(s) == IF s = <<>> THEN 0 ELSE Head(s) + SumSeq(Tail(s))

RECURSIVE Flatten(_)
Flatten(ss) == IF ss = <<>> THEN <<>> ELSE Head(ss) \o Flatten(Tail(ss))

LowerLetters == <<"a","b","c","d","e","f","g","h","i","j","k","l","m",
                  "n","o","p","q","r","s","t","u","v","w","x","y","z">>
UpperLetters == <<"A","B","C","D","E","F","G","H","I","J","K","L","M",
                  "N","O","P","Q","R","S","T","U","V","W","X","Y","Z">>

\* str.upper() on one character
UpperChar(c) ==
    IF \E i \in 1..26 : LowerLetters[i] = c
    THEN UpperLetters[CHOOSE i \in 1..26 : LowerLetters[i] = c]
    ELSE c

\* str.lower() on one character
LowerChar(c) ==
    IF \E i \in 1..26 : UpperLetters[i] = c
    THEN LowerLetters[CHOOSE i \in 1..26 : UpperLetters[i] = c]
    ELSE c

Upper(s) == [i \in 1..Len(s) |-> UpperChar(s[i])]

----------------------------------------------------------------------------
(* Part I: score normalization                                              *)

\* rule ids as character sequences
R_EMPTY == <<>>
R_B_203 == <<"B", "_", "2", "0", "3">>
R_B_DOT == <<"B", ".", "2", "0", "3">>
R_b_203 == <<"b", "_", "2", "0", "3">>
R_A_1   == <<"A", "_", "1">>
R_C_1   == <<"C", "_", "1">>
R_Z_1   == <<"Z", "_", "1">>

\* points values: an integer, or a value int() rejects (None, "abc")
IntPoints(n) == [is_int |-> TRUE, v |-> n]
BadPoints == [is_int |-> FALSE, v |-> 0]

NoEvidence == <<>>
Ev(s) == <<[snippet |-> s, text |-> ""]>>
EvText(s) == <<[snippet |-> "", text |-> s]>>

Ded(r, c, p, e) == [rule_id |-> r, category_id |-> c, points |-> p, evidence |-> e]

\* the deductions a model output is built from
DeductionPool ==
    { Ded(R_B_203, "",  IntPoints(10), NoEvidence),
      Ded(R_B_203, "",  IntPoints(15), Ev("s1")),
      Ded(R_b_203, "",  IntPoints(25), EvText("s1")),
      Ded(R_B_DOT, "",  IntPoints(5),  NoEvidence),
      Ded(R_EMPTY, "B", IntPoints(3),  NoEvidence),
      Ded(R_A_1,   "",  IntPoints(0 - 5), Ev("s2")),
      Ded(R_A_1,   "A", BadPoints,     NoEvidence),
      Ded(R_Z_1,   "Z", IntPoints(4),  NoEvidence),
      Ded(R_C_1,   "",  IntPoints(35), NoEvidence) }

ComponentIds == {"", "1.1"}

Component(id, ds) == [component_id |-> id, deductions |-> ds]

\* the components named ids, the deductions ds dealt to them in order: the
\* i-th deduction goes to component a[i], a nondecreasing
DealFindings(ids, ds, a) ==
    [j \in 1..Len(ids) |->
        LET before == Cardinality({i \in 1..Len(ds) : a[i] < j})
            here == Cardinality({i \in 1..Len(ds) : a[i] = j})
        IN Component(ids[j], SubSeq(ds, before + 1, before + here))]

\* a nondecreasing assignment of n deductions to k components
Deals(n, k) ==
    {a \in [1..n -> 1..k] : \A i \in 1..(n - 1) : a[i] <= a[i + 1]}

\* score fields a model output carries before normalization
PreScore ==
    [score_total |-> 77,
     score_by_category |->
        <<[category_id |-> "B", deduction |-> 23, max_deduction |-> 20]>>]

\* configuration file contents: unparsable text, or a JSON object
Mechanics(level, dpo) ==
    [aggregate_level |-> level, deduct_per_occurrence |-> dpo]
MechanicsFloor(level, dpo, floor) ==
    [aggregate_level |-> level, deduct_per_occurrence |-> dpo, score_floor |-> floor]
Categories ==
    <<[id |-> "A", max_deduction |-> 20], [id |-> "B", max_deduction |-> 20]>>
ScoringModelTexts ==
    { [parse_ok |-> FALSE, payload |-> <<>>] }
    \cup { [parse_ok |-> TRUE,
            payload |-> [categories |-> Categories,
                         scoring_mechanics |-> m]] :
           m \in { MechanicsFloor("Report", TRUE, 90),
                   Mechanics("issue", TRUE),
                   Mechanics("issue", FALSE),
                   Mechanics("bygningsdel", TRUE) } }

\* json.loads with the except branch: a text that does not parse gives {}
JsonLoads(text) == IF text.parse_ok THEN text.payload ELSE <<>>

DefaultCategoryOrder == <<"A", "B", "C", "D", "E">>

LoadScoringModel(text) ==
    LET payload == JsonLoads(text)
        categories == SelectSeq(Get(payload, "categories", <<>>),
                                LAMBDA c : Get(c, "id", "") # "")
        ids == [i \in 1..Len(categories) |-> categories[i].id]
        mechanics == Get(payload, "scoring_mechanics", <<>>)
        own_caps == Get(mechanics, "category_caps", <<>>)
        cat_caps == [c \in {ids[i] : i \in 1..Len(ids)} |->
                        LET last == CHOOSE i \in 1..Len(ids) :
                                        /\ ids[i] = c
                                        /\ \A j \in (i + 1)..Len(ids) : ids[j] # c
                        IN Get(categories[last], "max_deduction", 0)]
    IN [category_order |-> IF ids = <<>> THEN DefaultCategoryOrder ELSE ids,
        category_caps |-> IF DOMAIN own_caps # {} THEN own_caps ELSE cat_caps,
        deduct_per_occurrence |-> Get(mechanics, "deduct_per_occurrence", TRUE),
        aggregate_level |-> Get(mechanics, "aggregate_level", "bygningsdel"),
        score_start |-> Get(mechanics, "score_start", Get(payload, "score_start", 100)),
        score_floor |-> Get(mechanics, "score_floor", 0),
        score_ceiling |-> Get(mechanics, "score_ceiling", 100)]

InferCategoryFromRuleId(rule_id) ==
    IF rule_id = <<>> \/ ~(\E i \in 1..Len(rule_id) : rule_id[i] = "_")
    THEN ""
    ELSE LET cut == CHOOSE i \in 1..Len(rule_id) :
                        /\ rule_id[i] = "_"
                        /\ \A j \in 1..(i - 1) : rule_id[j] # "_"
             prefix == Upper(SubSeq(rule_id, 1, cut - 1))
         IN IF Len(prefix) = 1 /\ prefix[1] \in {"A", "B", "C", "D", "E"}
            THEN prefix[1]
            ELSE ""

\* sha256(...).hexdigest(): collision-free on the snippets of the model
Sha256Hex(s) == "sha256:" \o s

HashEvidenceSpan(evidence) ==
    IF evidence = <<>> THEN ""
    ELSE LET candidate == evidence[1]
         IN IF candidate.snippet # "" THEN Sha256Hex(candidate.snippet)
            ELSE IF candidate.text # "" THEN Sha256Hex(candidate.text)
            ELSE ""

\* str(aggregate_level).lower() on the spellings a configuration uses
LowerLevel(level) ==
    CASE level = "Report" -> "report"
      [] level = "Issue" -> "issue"
      [] OTHER -> level

\* mutant: the report-level branch is missing, report level falls through
\* to the component key
UniqueKey_NoReportLevel(deduction, component_id, scoring_model) ==
    LET rule_id == deduction.rule_id
        aggregate_level == LowerLevel(scoring_model.aggregate_level)
    IN IF ~scoring_model.deduct_per_occurrence THEN <<"report", rule_id>>
       ELSE IF aggregate_level \in {"issue", "evidence"}
       THEN LET evidence_hash == HashEvidenceSpan(deduction.evidence)
            IN <<"issue", rule_id,
                 IF evidence_hash # "" THEN evidence_hash ELSE component_id>>
       ELSE <<"component", IF component_id # "" THEN component_id ELSE "unknown",
              rule_id>>

UniqueKey(deduction, component_id, scoring_model) ==
    LET rule_id == deduction.rule_id
        aggregate_level == LowerLevel(scoring_model.aggregate_level)
    IN IF ~scoring_model.deduct_per_occurrence THEN <<"report", rule_id>>
       ELSE IF aggregate_level \in {"report", "global", "document", "rule"}
       THEN <<"report", rule_id>>
       ELSE IF aggregate_level \in {"issue", "evidence"}
       THEN LET evidence_hash == HashEvidenceSpan(deduction.evidence)
            IN <<"issue", rule_id,
                 IF evidence_hash # "" THEN evidence_hash ELSE component_id>>
       ELSE <<"component", IF component_id # "" THEN component_id ELSE "unknown",
              rule_id>>

\* mutant: the key of a kept deduction is never added to seen_keys
RECURSIVE DedupeDeductions_NoSeenAdd(_, _, _, _)
DedupeDeductions_NoSeenAdd(deductions, component_id, scoring_model, st) ==
    IF deductions = <<>> THEN st
    ELSE LET deduction == Head(deductions)
             rule_id == deduction.rule_id
             unique_key == UniqueKey(deduction, component_id, scoring_model)
             category_id == IF deduction.category_id # ""
                            THEN deduction.category_id
                            ELSE InferCategoryFromRuleId(rule_id)
             kept == IF category_id # ""
                     THEN [deduction EXCEPT !.category_id = category_id]
                     ELSE deduction
         IN IF rule_id # <<>> /\ unique_key \in st.seen
            THEN DedupeDeductions_NoSeenAdd(Tail(deductions), component_id,
                                            scoring_model, st)
            ELSE DedupeDeductions_NoSeenAdd(Tail(deductions), component_id,
                    scoring_model,
                    [seen |-> st.seen, deduped |-> Append(st.deduped, kept)])

\* the inner loop over one component's deductions; st = [seen, deduped]
RECURSIVE DedupeDeductions(_, _, _, _)
DedupeDeductions(deductions, component_id, scoring_model, st) ==
    IF deductions = <<>> THEN st
    ELSE LET deduction == Head(deductions)
             rule_id == deduction.rule_id
             unique_key == UniqueKey(deduction, component_id, scoring_model)
             category_id == IF deduction.category_id # ""
                            THEN deduction.category_id
                            ELSE InferCategoryFromRuleId(rule_id)
             kept == IF category_id # ""
                     THEN [deduction EXCEPT !.category_id = category_id]
                     ELSE deduction
         IN IF rule_id # <<>> /\ unique_key \in st.seen
            THEN DedupeDeductions(Tail(deductions), component_id, scoring_model, st)
            ELSE DedupeDeductions(Tail(deductions), component_id, scoring_model,
                    [seen |-> IF rule_id # <<>> THEN st.seen \cup {unique_key}
                                               ELSE st.seen,
                     deduped |-> Append(st.deduped, kept)])

\* int(points) with the except branch
PointsValue(points) == IF points.is_int THEN points.v ELSE 0

\* mutant: has_deductions is set before the category test
RECURSIVE AddCategoryTotals_HasBeforeTest(_, _)
AddCategoryTotals_HasBeforeTest(deduped, acc) ==
    IF deduped = <<>> THEN acc
    ELSE LET deduction == Head(deduped)
             category_id == IF deduction.category_id # ""
                            THEN deduction.category_id
                            ELSE InferCategoryFromRuleId(deduction.rule_id)
             totals == acc.totals
         IN IF category_id = ""
            THEN AddCategoryTotals_HasBeforeTest(Tail(deduped),
                    [totals |-> totals, has |-> TRUE])
            ELSE AddCategoryTotals_HasBeforeTest(Tail(deduped),
                    [totals |-> [c \in DOMAIN totals \cup {category_id} |->
                                    IF c = category_id
                                    THEN Get(totals, c, 0) + PointsValue(deduction.points)
                                    ELSE totals[c]],
                     has |-> TRUE])

\* the second loop over one component's deduped list; acc = [totals, has]
RECURSIVE AddCategoryTotals(_, _)
AddCategoryTotals(deduped, acc) ==
    IF deduped = <<>> THEN acc
    ELSE LET deduction == Head(deduped)
             category_id == IF deduction.category_id # ""
                            THEN deduction.category_id
                            ELSE InferCategoryFromRuleId(deduction.rule_id)
             totals == acc.totals
         IN IF category_id = ""
            THEN AddCategoryTotals(Tail(deduped), acc)
            ELSE AddCategoryTotals(Tail(deduped),
                    [totals |-> [c \in DOMAIN totals \cup {category_id} |->
                                    IF c = category_id
                                    THEN Get(totals, c, 0) + PointsValue(deduction.points)
                                    ELSE totals[c]],
                     has |-> TRUE])

\* the loop over the components; st = [seen, totals, has, findings]
RECURSIVE ScanFindings(_, _, _)
ScanFindings(findings, scoring_model, st) ==
    IF findings = <<>> THEN st
    ELSE LET component == Head(findings)
             dd == DedupeDeductions(component.deductions, component.component_id,
                                    scoring_model, [seen |-> st.seen, deduped |-> <<>>])
             acc == AddCategoryTotals(dd.deduped, [totals |-> st.totals, has |-> st.has])
         IN ScanFindings(Tail(findings), scoring_model,
                [seen |-> dd.seen, totals |-> acc.totals, has |-> acc.has,
                 findings |-> Append(st.findings,
                                     [component EXCEPT !.deductions = dd.deduped])])

\* mutant: the caps are not applied
CappedTotals_NoCap(totals, category_caps) == totals

CappedTotals(totals, category_caps) ==
    [c \in DOMAIN totals |->
        IF c \in DOMAIN category_caps THEN Min(totals[c], category_caps[c])
        ELSE totals[c]]

ClampScore(scoring_model, total_deduction) ==
    Max(scoring_model.score_floor,
        Min(scoring_model.score_ceiling, scoring_model.score_start - total_deduction))

\* the normalizer that deducts from the score_total it finds in the output
NormalizeScoringOutput_FromFoundScore(output, text) ==
    LET scoring_model == LoadScoringModel(text)
        category_order == scoring_model.category_order
        category_caps == scoring_model.category_caps
        scan == ScanFindings(output.findings, scoring_model,
                    [seen |-> {},
                     totals |-> [c \in {category_order[i] : i \in 1..Len(category_order)} |-> 0],
                     has |-> FALSE,
                     findings |-> <<>>])
        capped_totals == CappedTotals(scan.totals, category_caps)
        score_by_category ==
            [i \in 1..Len(category_order) |->
                [category_id |-> category_order[i],
                 deduction |-> Get(capped_totals, category_order[i], 0),
                 max_deduction |-> Get(category_caps, category_order[i], 0)]]
        total_deduction == SumSet(capped_totals, DOMAIN capped_totals)
    IN [category_totals |-> scan.totals,
        has_deductions |-> scan.has,
        output |-> IF ~scan.has
                   THEN [output EXCEPT !.findings = scan.findings]
                   ELSE [findings |-> scan.findings,
                         score_by_category |-> score_by_category,
                         score_total |->
                             ClampScore([scoring_model EXCEPT !.score_start = output.score_total],
                                        total_deduction)]]

\* _normalize_scoring_output: the new analysis_output and the final locals
NormalizeScoringOutput(output, text) ==
    LET scoring_model == LoadScoringModel(text)
        category_order == scoring_model.category_order
        category_caps == scoring_model.category_caps
        scan == ScanFindings(output.findings, scoring_model,
                    [seen |-> {},
                     totals |-> [c \in {category_order[i] : i \in 1..Len(category_order)} |-> 0],
                     has |-> FALSE,
                     findings |-> <<>>])
        capped_totals == CappedTotals(scan.totals, category_caps)
        score_by_category ==
            [i \in 1..Len(category_order) |->
                [category_id |-> category_order[i],
                 deduction |-> Get(capped_totals, category_order[i], 0),
                 max_deduction |-> Get(category_caps, category_order[i], 0)]]
        total_deduction == SumSet(capped_totals, DOMAIN capped_totals)
    IN [category_totals |-> scan.totals,
        has_deductions |-> scan.has,
        output |-> IF ~scan.has
                   THEN [output EXCEPT !.findings = scan.findings]
                   ELSE [findings |-> scan.findings,
                         score_by_category |-> score_by_category,
                         score_total |-> ClampScore(scoring_model, total_deduction)]]

\* the detector is not running
DetectIdle == report_text = <<>> /\ detected = <<>> /\ dpc = "idle"
GroundIdle == epc = "idle"
FeedbackIdle ==
    /\ detected_points = <<>> /\ payload_points = <<>>
    /\ sorted_points = <<>> /\ feedback = <<>> /\ fpc = "idle"
\* no analysis is reading the configuration file
RegistryIdle == scoring_model_info = <<>> /\ loaded_text = <<>>
\* no report is being followed
ReportIdle == report = <<>>
\* no request touches the user's credits
CreditIdle ==
    /\ credits = 0 /\ request = <<>> /\ cpc = <<>>
    /\ user_credits = <<>> /\ row_lock = 0
\* the queue worker has not run its detector
WorkerIdle == worker_detected = {}
\* no upload is being served
CacheIdle ==
    /\ cache_table = {} /\ next_id = 1
    /\ upload = <<>> /\ rpc = <<>> /\ cache_entry = <<>> /\ analysis = <<>>
    /\ pending = <<>> /\ response = <<>> /\ model_calls = <<>>

\* a model output of at most MaxComponents components carrying at most
\* MaxDeductions deductions in total, under any configuration text
InitNormalize ==
    /\ scoring_model_text \in ScoringModelTexts
    /\ \E ids \in SeqsUpTo(ComponentIds, MaxComponents) :
       \E ds \in IF ids = <<>> THEN {<<>>} ELSE SeqsUpTo(DeductionPool, MaxDeductions) :
       \E a \in Deals(Len(ds), Len(ids)) :
          analysis_output = [findings |-> DealFindings(ids, ds, a),
                             score_total |-> PreScore.score_total,
                             score_by_category |-> PreScore.score_by_category]
    /\ input_output = analysis_output
    /\ category_totals = <<>>
    /\ has_deductions = FALSE
    /\ pc = "input"
    /\ DetectIdle
    /\ GroundIdle
    /\ FeedbackIdle
    /\ CacheIdle
    /\ RegistryIdle
    /\ ReportIdle
    /\ CreditIdle
    /\ WorkerIdle

\* one call of normalize_scoring_output(analysis_output): the call of the live
\* path, then the call the cache-hit path makes on the stored result
Normalize ==
    /\ pc \in {"input", "normalized"}
    /\ LET r == NormalizeScoringOutput(analysis_output, scoring_model_text)
       IN /\ analysis_output' = r.output
          /\ category_totals' = r.category_totals
          /\ has_deductions' = r.has_deductions
    /\ pc' = IF pc = "input" THEN "normalized" ELSE "renormalized"
    /\ UNCHANGED <<scoring_model_text, input_output, report_text, detected, dpc>>
    /\ UNCHANGED <<groundVars, feedbackVars, cacheVars, registryVars>>
    /\ UNCHANGED <<reportVars, creditVars, workerVars>>

NextNormalize == Normalize

SpecNormalize == InitNormalize /\ [][NextNormalize]_vars

----------------------------------------------------------------------------
(* Part II: point detection                                                 *)

MaxPages == 2
MaxLines == 3

Digits == {"0", "1", "2", "3", "4", "5", "6", "7", "8", "9"}
\* the characters \s matches, line breaks included
Whitespace == {" ", "\t", "\n"}
\* the characters \w matches
WordChars ==
    {LowerLetters[i] : i \in 1..26} \cup {UpperLetters[i] : i \in 1..26}
        \cup Digits \cup {"_"}

Lower(s) == [i \in 1..Len(s) |-> LowerChar(s[i])]

\* the first position at or after i whose character is not in S
SkipWhile(s, i, S) ==
    CHOOSE j \in i..(Len(s) + 1) :
        /\ j = Len(s) + 1 \/ s[j] \notin S
        /\ \A k \in i..(j - 1) : s[k] \in S

\* s has word w at position i, letter case ignored
HasWordAt(s, i, w) ==
    /\ i + Len(w) - 1 <= Len(s)
    /\ \A k \in 1..Len(w) : LowerChar(s[i + k - 1]) = LowerChar(w[k])

\* str.strip()
Strip(s) ==
    LET a == SkipWhile(s, 1, Whitespace)
    IN IF a > Len(s) THEN <<>>
       ELSE LET b == CHOOSE j \in a..Len(s) :
                        /\ s[j] \notin Whitespace
                        /\ \A k \in (j + 1)..Len(s) : s[k] \in Whitespace
            IN SubSeq(s, a, b)

\* str.splitlines() on text whose only line break is "\n"
RECURSIVE SplitLines(_)
SplitLines(s) ==
    IF s = <<>> THEN <<>>
    ELSE LET i == CHOOSE j \in 1..(Len(s) + 1) :
                      /\ j = Len(s) + 1 \/ s[j] = "\n"
                      /\ \A k \in 1..(j - 1) : s[k] # "\n"
         IN <<SubSeq(s, 1, i - 1)>> \o SplitLines(SubSeq(s, i + 1, Len(s)))

\* "\n".join(lines)
RECURSIVE JoinLines(_)
JoinLines(lines) ==
    IF lines = <<>> THEN <<>>
    ELSE IF Len(lines) = 1 THEN lines[1]
    ELSE lines[1] \o <<"\n">> \o JoinLines(Tail(lines))

\* PDF_NOISE_PATTERNS[0]: ^\s*\d+\s*/\s*\d+\s+.*
NoisePageCount(line) ==
    LET a == SkipWhile(line, 1, Whitespace)
        b == SkipWhile(line, a, Digits)
        c == SkipWhile(line, b, Whitespace)
        d == SkipWhile(line, c + 1, Whitespace)
        e == SkipWhile(line, d, Digits)
    IN /\ b > a
       /\ c <= Len(line) /\ line[c] = "/"
       /\ e > d
       /\ e <= Len(line) /\ line[e] \in Whitespace

NoiseWords ==
    { <<"B", "M", "T", "F">>,
      <<"B", "y", "g", "g", "m", "e", "s", "t", "r", "e", "n", "e", "s", " ", "T", "a", "k", "s", "e", "r", "i", "n", "g", "s", "f", "o", "r", "b", "u", "n", "d">>,
      <<"E", "I", "E", "R", "S", "K", "I", "F", "T", "E", "R", "A", "P", "P", "O", "R", "T">>,
      <<"T", "i", "l", "s", "t", "a", "n", "d", "s", "r", "a", "p", "p", "o", "r", "t">>,
      <<"N", "o", "r", "s", "k", " ", "T", "a", "k", "s", "t">> }

\* PDF_NOISE_PATTERNS[1]: ^\s*(BMTF|...|Norsk Takst).* ignoring case
NoiseLetterhead(line) ==
    \E w \in NoiseWords : HasWordAt(line, SkipWhile(line, 1, Whitespace), w)

\* PDF_NOISE_PATTERNS[2]: ^\s*Side\s+\d+\s+av\s+\d+\s*$ ignoring case
NoisePageFooter(line) ==
    LET a == SkipWhile(line, 1, Whitespace)
        b == SkipWhile(line, a + 4, Whitespace)
        c == SkipWhile(line, b, Digits)
        d == SkipWhile(line, c, Whitespace)
        e == SkipWhile(line, d + 2, Whitespace)
        f == SkipWhile(line, e, Digits)
        g == SkipWhile(line, f, Whitespace)
    IN /\ HasWordAt(line, a, <<"S", "i", "d", "e">>)
       /\ b > a + 4
       /\ c > b
       /\ d > c
       /\ HasWordAt(line, d, <<"a", "v">>)
       /\ e > d + 2
       /\ f > e
       /\ g = Len(line) + 1

IsNoiseLine(line) ==
    NoisePageCount(line) \/ NoiseLetterhead(line) \/ NoisePageFooter(line)

StripPdfNoise(text) ==
    IF text = <<>> THEN <<>>
    ELSE Strip(JoinLines(SelectSeq(SplitLines(text), LAMBDA l : ~IsNoiseLine(l))))

\* _split_pages on the blocks PAGE_MARKER_RE.split yields: one page per
\* "[SIDE n]\n" marker, page number n, text stripped and freed of noise
SplitPages(blocks) ==
    [i \in 1..Len(blocks) |->
        [page |-> blocks[i].marker, text |-> StripPdfNoise(Strip(blocks[i].text))]]

\* POINT_HEADER_RE.match(line): ^\s*(\d+(?:\.\d+){1,4})\s+(.*\S)?$
\* the position after at most 4 further ".<digits>" groups, and their number
RECURSIVE DottedGroups(_, _, _)
DottedGroups(line, pos, n) ==
    IF /\ n < 4
       /\ pos + 1 <= Len(line)
       /\ line[pos] = "."
       /\ line[pos + 1] \in Digits
    THEN DottedGroups(line, SkipWhile(line, pos + 1, Digits), n + 1)
    ELSE [pos |-> pos, n |-> n]

PointHeaderMatch(line) ==
    LET a == SkipWhile(line, 1, Whitespace)
        b == SkipWhile(line, a, Digits)
        g == DottedGroups(line, b, 0)
        c == SkipWhile(line, g.pos, Whitespace)
    IN IF /\ b > a
          /\ g.n >= 1
          /\ c > g.pos
          /\ (c > Len(line) \/ line[Len(line)] \notin Whitespace)
       THEN [matched |-> TRUE,
             point_id |-> SubSeq(line, a, g.pos - 1),
             section_title |-> Strip(SubSeq(line, c, Len(line)))]
       ELSE [matched |-> FALSE, point_id |-> <<>>, section_title |-> <<>>]

\* mutant: TG_RE compiled with re.IGNORECASE
TgMatchAt_IgnoreCase(s, i) ==
    LET Boundary(j) == j > Len(s) \/ s[j] \notin WordChars
    IN IF /\ i + 2 <= Len(s)
          /\ UpperChar(s[i]) = "T" /\ UpperChar(s[i + 1]) = "G"
          /\ (i = 1 \/ s[i - 1] \notin WordChars)
       THEN IF s[i + 2] \in {"0", "1", "2", "3"} /\ Boundary(i + 3)
            THEN SubSeq(s, i, i + 2)
            ELSE IF /\ i + 3 <= Len(s)
                    /\ UpperChar(s[i + 2]) = "I" /\ UpperChar(s[i + 3]) = "U"
                    /\ Boundary(i + 4)
            THEN SubSeq(s, i, i + 3)
            ELSE <<>>
       ELSE <<>>

\* TG_RE: \bTG(?:0|1|2|3|IU)\b at position i of s; the matched token or <<>>
TgMatchAt(s, i) ==
    LET Boundary(j) == j > Len(s) \/ s[j] \notin WordChars
    IN IF /\ i + 2 <= Len(s)
          /\ s[i] = "T" /\ s[i + 1] = "G"
          /\ (i = 1 \/ s[i - 1] \notin WordChars)
       THEN IF s[i + 2] \in {"0", "1", "2", "3"} /\ Boundary(i + 3)
            THEN SubSeq(s, i, i + 2)
            ELSE IF /\ i + 3 <= Len(s)
                    /\ s[i + 2] = "I" /\ s[i + 3] = "U"
                    /\ Boundary(i + 4)
            THEN SubSeq(s, i, i + 3)
            ELSE <<>>
       ELSE <<>>

\* TG_RE.search(s): the first match, or <<>> when there is none
TgSearch(s) ==
    LET hits == {i \in 1..Len(s) : TgMatchAt(s, i) # <<>>}
    IN IF hits = {} THEN <<>>
       ELSE TgMatchAt(s, CHOOSE i \in hits : \A j \in hits : i <= j)

\* _is_numeric_point_id: ^\d+(?:\.\d+)*$
IsNumericPointId(value) ==
    /\ value # <<>>
    /\ \A i \in 1..Len(value) : value[i] \in Digits \cup {"."}
    /\ value[1] \in Digits /\ value[Len(value)] \in Digits
    /\ \A i \in 1..(Len(value) - 1) : ~(value[i] = "." /\ value[i + 1] = ".")

\* the (page, line) list over all pages
LineIndex(pages) ==
    Flatten([p \in 1..Len(pages) |->
                LET ls == SplitLines(pages[p].text)
                IN [i \in 1..Len(ls) |-> [page |-> pages[p].page, text |-> ls[i]]]])

\* the indexes of the heading lines, ascending
RECURSIVE HeadingIndexes(_, _)
HeadingIndexes(line_index, idx) ==
    IF idx > Len(line_index) THEN <<>>
    ELSE IF PointHeaderMatch(line_index[idx].text).matched
    THEN <<idx>> \o HeadingIndexes(line_index, idx + 1)
    ELSE HeadingIndexes(line_index, idx + 1)

Ukjent == <<"U", "k", "j", "e", "n", "t">>
PunktPrefix == <<"P", "u", "n", "k", "t", " ">>

\* hashlib.sha256(...).hexdigest(), collision-free on the texts of the model
SpanHash(span_text) == IF span_text = <<>> THEN <<>> ELSE <<"sha256", span_text>>

\* the (page, line) items of the i-th heading's span: from the heading up to
\* the next heading or the end of the document
SpanLines(line_index, headings, i) ==
    LET start_idx == headings[i]
        end_idx == IF i + 1 <= Len(headings) THEN headings[i + 1]
                   ELSE Len(line_index) + 1
    IN SubSeq(line_index, start_idx, end_idx - 1)

SpanText(span_lines) ==
    Strip(JoinLines([k \in 1..Len(span_lines) |-> span_lines[k].text]))

\* _extract_detected_points
ExtractDetectedPoints(blocks) ==
    LET pages == SplitPages(blocks)
        line_index == LineIndex(pages)
        headings == HeadingIndexes(line_index, 1)
    IN [i \in 1..Len(headings) |->
          LET start_idx == headings[i]
              span_lines == SpanLines(line_index, headings, i)
              span_text == SpanText(span_lines)
              heading == PointHeaderMatch(line_index[start_idx].text)
              section_title == heading.section_title
              excerpt0 == IF section_title # <<>> THEN section_title
                          ELSE Strip(SubSeq(span_text, 1, Min(200, Len(span_text))))
              native_label == heading.point_id
          IN [point_key |-> <<"P", i>>,
              native_label |-> native_label,
              numeric_id |-> IF IsNumericPointId(native_label) THEN native_label
                             ELSE <<>>,
              kind |-> "point",
              point_id |-> heading.point_id,
              title |-> IF section_title # <<>> THEN section_title ELSE Ukjent,
              page_start |-> span_lines[1].page,
              page_end |-> span_lines[Len(span_lines)].page,
              order_in_doc |-> i,
              anchor_text |-> span_lines[1].text,
              span_hash |-> SpanHash(span_text),
              excerpt |-> IF excerpt0 # <<>> THEN excerpt0
                          ELSE PunktPrefix \o heading.point_id,
              tg |-> TgSearch(span_text)]]

\* the lines report pages are built from
L_1_Tak     == <<"1", " ", "T", "a", "k">>
L_21_Bad    == <<"2", ".", "1", " ", "B", "a", "d">>
L_23_Bare   == <<"2", ".", "3">>
L_Six       == <<"1", ".", "2", ".", "3", ".", "4", ".", "5", ".", "6", " ", "X">>
L_TG3       == <<"e", "r", " ", "T", "G", "3">>
L_tg2       == <<"t", "g", "2">>
L_Footer    == <<"S", "i", "d", "e", " ", "1", " ", "a", "v", " ", "2">>
LinePool == {L_1_Tak, L_21_Bad, L_23_Bare, L_Six, L_TG3, L_tg2, L_Footer}

\* the blocks of a text: block j carries marker markers[j] and the lines
\* dealt to it, each ended by a line break
DealBlocks(markers, lines, a) ==
    [j \in 1..Len(markers) |->
        LET before == Cardinality({i \in 1..Len(lines) : a[i] < j})
            here == Cardinality({i \in 1..Len(lines) : a[i] = j})
        IN [marker |-> markers[j],
            text |-> Flatten([k \in 1..here |-> lines[before + k] \o <<"\n">>])]]

NormalizeIdle ==
    /\ scoring_model_text = [parse_ok |-> FALSE, payload |-> <<>>]
    /\ analysis_output = [findings |-> <<>>,
                          score_total |-> PreScore.score_total,
                          score_by_category |-> PreScore.score_by_category]
    /\ input_output = analysis_output
    /\ category_totals = <<>>
    /\ has_deductions = FALSE
    /\ pc = "idle"

\* the numbers page markers carry
PageNumbers == {1, 2}

\* the queue worker's _split_pages: the page text is stripped, noise lines
\* stay
WorkerSplitPages(blocks) ==
    [i \in 1..Len(blocks) |->
        [page |-> blocks[i].marker, text |-> Strip(blocks[i].text)]]

\* the queue worker's _extract_detected_points
WorkerExtractDetectedPoints(blocks) ==
    LET pages == WorkerSplitPages(blocks)
        line_index == LineIndex(pages)
        headings == HeadingIndexes(line_index, 1)
    IN [i \in 1..Len(headings) |->
          LET start_idx == headings[i]
              span_lines == SpanLines(line_index, headings, i)
              span_text == SpanText(span_lines)
              heading == PointHeaderMatch(line_index[start_idx].text)
              section_title == heading.section_title
              excerpt0 == IF section_title # <<>> THEN section_title
                          ELSE Strip(SubSeq(span_text, 1, Min(200, Len(span_text))))
          IN [point_id |-> heading.point_id,
              title |-> IF section_title # <<>> THEN section_title ELSE Ukjent,
              page_start |-> span_lines[1].page,
              page_end |-> span_lines[Len(span_lines)].page,
              span_hash |-> SpanHash(span_text),
              excerpt |-> IF excerpt0 # <<>> THEN excerpt0
                          ELSE PunktPrefix \o heading.point_id,
              tg |-> TgSearch(span_text)]]

\* a text of at most MaxPages pages, numbered in any order, carrying at most
\* MaxLines lines in total
InitDetect ==
    /\ \E markers \in SeqsUpTo(PageNumbers, MaxPages) :
       \E lines \in IF markers = <<>> THEN {<<>>} ELSE SeqsUpTo(LinePool, MaxLines) :
       \E a \in Deals(Len(lines), Len(markers)) :
          report_text = DealBlocks(markers, lines, a)
    /\ detected = <<>>
    /\ dpc = "input"
    /\ NormalizeIdle
    /\ GroundIdle
    /\ FeedbackIdle
    /\ CacheIdle
    /\ RegistryIdle
    /\ ReportIdle
    /\ CreditIdle
    /\ WorkerIdle

\* one call of _extract_detected_points(report_text)
ExtractPoints ==
    /\ dpc = "input"
    /\ detected' = ExtractDetectedPoints(report_text)
    /\ dpc' = "detected"
    /\ UNCHANGED <<scoring_model_text, analysis_output, input_output,
                   category_totals, has_deductions, pc, report_text>>
    /\ UNCHANGED <<groundVars, feedbackVars, cacheVars, registryVars>>
    /\ UNCHANGED <<reportVars, creditVars, workerVars>>

\* one call of the queue worker's _extract_detected_points(report_text) in
\* lambda_handler, on the same text
WorkerExtractPoints ==
    /\ worker_detected = {}
    /\ worker_detected' = {WorkerExtractDetectedPoints(report_text)}
    /\ UNCHANGED <<normVars, detVars, groundVars, feedbackVars, cacheVars,
                   registryVars>>
    /\ UNCHANGED <<reportVars, creditVars>>

NextDetect == ExtractPoints

SpecDetect == InitDetect /\ [][NextDetect]_vars

\* the two execution paths on one text: a text of at most MaxPages pages with
\* one line each
InitPaths ==
    /\ \E markers \in SeqsUpTo(PageNumbers, MaxPages) :
       \E lines \in [1..Len(markers) -> LinePool] :
          report_text = DealBlocks(markers, lines, [i \in 1..Len(markers) |-> i])
    /\ detected = <<>>
    /\ dpc = "input"
    /\ NormalizeIdle
    /\ GroundIdle
    /\ FeedbackIdle
    /\ CacheIdle
    /\ RegistryIdle
    /\ ReportIdle
    /\ CreditIdle
    /\ WorkerIdle

NextPaths ==
    \/ ExtractPoints
    \/ WorkerExtractPoints

SpecPaths == InitPaths /\ [][NextPaths]_vars

----------------------------------------------------------------------------
(* Part III: evidence grounding                                             *)
(*                                                                          *)
(* Component ids and titles are searched for in the page text, so here they *)
(* are character sequences, as are snippets; "" is the empty sequence.      *)
(* match_explain is a sequence of pieces.  A model output carries a list of *)
(* dicts under "evidence" or nothing, so isinstance(evidence, list) is the  *)
(* presence of the key.                                                     *)

MaxIssues == 2
MaxDrivers == 1

\* window of _extract_snippet
SnippetWindow == 220

SUMMARY_MARKERS ==
    << <<"o", "p", "p", "s", "u", "m", "m", "e", "r", "i", "n", "g">>,
       <<"t", "a", "k", "s", "t", "m", "a", "n", "n", "e", "n", "s", " ", "v", "u", "r", "d", "e", "r", "i", "n", "g">>,
       <<"s", "u", "m", "m", "a", "r", "y">> >>

\* str.find: the 0-based index of the first occurrence of term, or -1
Find(text, term) ==
    LET hits == {i \in 1..(Len(text) - Len(term) + 1) :
                    SubSeq(text, i, i + Len(term) - 1) = term}
    IN IF hits = {} THEN 0 - 1
       ELSE (CHOOSE i \in hits : \A j \in hits : i <= j) - 1

\* _extract_snippet(text, index)
ExtractSnippet(text, index) ==
    IF text = <<>> THEN <<>>
    ELSE LET start == Max(index - (SnippetWindow \div 2), 0)
             end == Min(index + (SnippetWindow \div 2), Len(text))
         IN Strip(SubSeq(text, start + 1, end))

\* the (page, term) pairs in the order the two loops visit them
RECURSIVE FirstMatch(_, _, _)
FirstMatch(pages, search_terms, p) ==
    IF p > Len(pages) THEN [found |-> FALSE]
    ELSE LET lower_text == Lower(pages[p].text)
             hit == {t \in 1..Len(search_terms) :
                        Find(lower_text, Lower(search_terms[t])) # 0 - 1}
         IN IF hit = {} THEN FirstMatch(pages, search_terms, p + 1)
            ELSE LET t == CHOOSE x \in hit : \A y \in hit : x <= y
                 IN [found |-> TRUE, page |-> pages[p],
                     term |-> search_terms[t],
                     idx |-> Find(lower_text, Lower(search_terms[t]))]

\* _build_evidence_for_component
BuildEvidenceForComponent(component_id, component_title, tg, pages) ==
    LET search_terms == SelectSeq(<<component_id, component_title>>,
                                  LAMBDA term : term # <<>>)
        m == FirstMatch(pages, search_terms, 1)
    IN IF m.found
       THEN [point_id |-> component_id,
             tg |-> tg,
             page |-> m.page.page,
             heading |-> component_title,
             source |-> IF \E k \in 1..Len(SUMMARY_MARKERS) :
                              Find(Lower(m.page.text), SUMMARY_MARKERS[k]) # 0 - 1
                        THEN "SUMMARY" ELSE "LOCAL",
             snippet |-> ExtractSnippet(m.page.text, m.idx),
             match_explain |-> <<"Matched", m.term, m.page.page>>]
       ELSE [point_id |-> component_id,
             tg |-> tg,
             page |-> IF pages # <<>> THEN pages[1].page ELSE 1,
             heading |-> component_title,
             source |-> "LOCAL",
             snippet |-> ExtractSnippet(IF pages # <<>> THEN pages[1].text ELSE <<>>, 0),
             match_explain |->
                <<"Fallback: no direct match for component_id/title in page text.">>]

EvidenceKeys ==
    <<"point_id", "tg", "heading", "source", "page", "match_explain", "snippet">>

\* dict.setdefault(k, v)
SetDefault(d, k, v) == IF k \in DOMAIN d THEN d ELSE d @@ (k :> v)

\* d[k] = v
Put(d, k, v) == [x \in DOMAIN d \cup {k} |-> IF x = k THEN v ELSE d[x]]

\* the value dict.get(k) returns for a missing key, or any falsy value of
\* the key's type
Falsy(k) ==
    IF k \in {"page", "page_start", "page_end", "order_in_doc"} THEN 0
    ELSE IF k \in {"tg", "source", "kind", "summary"} THEN ""
    ELSE <<>>

\* not d.get(k)
NotGet(d, k) == k \notin DOMAIN d \/ d[k] = Falsy(k)

\* the body of the loop of _normalize_evidence_items up to the test
NormalizeCandidate(item) ==
    LET c0 == IF NotGet(item, "snippet") /\ ~NotGet(item, "text")
              THEN Put(item, "snippet", item.text) ELSE item
        c1 == SetDefault(c0, "point_id", <<>>)
        c2 == SetDefault(c1, "tg", "")
        c3 == SetDefault(c2, "heading", <<>>)
        c4 == SetDefault(c3, "source", "LOCAL")
        c5 == SetDefault(c4, "match_explain", <<"Derived from evidence text.">>)
    IN SetDefault(c5, "page", 1)

NormalizeKeeps(candidate) ==
    /\ {EvidenceKeys[k] : k \in 1..Len(EvidenceKeys)} \subseteq DOMAIN candidate
    /\ ~NotGet(candidate, "snippet")
    /\ ~NotGet(candidate, "page")

\* _normalize_evidence_items
NormalizeEvidenceItems(items) ==
    SelectSeq([i \in 1..Len(items) |-> NormalizeCandidate(items[i])], NormalizeKeeps)

\* _merge_evidence_defaults
RECURSIVE MergeKeys(_, _, _)
MergeKeys(merged, defaults, k) ==
    IF k > Len(EvidenceKeys) THEN merged
    ELSE LET key == EvidenceKeys[k]
         IN MergeKeys(IF NotGet(merged, key)
                      THEN Put(merged, key, Get(defaults, key, Falsy(key)))
                      ELSE merged,
                      defaults, k + 1)

MergeEvidenceDefaults(item, defaults) == MergeKeys(item, defaults, 1)

\* GroundIssue adding the seed after the evidence it keeps
GroundIssue_AppendSeed(issue, evidence_seed) ==
    IF "evidence" \notin DOMAIN issue \/ issue.evidence = <<>>
    THEN Put(issue, "evidence", <<evidence_seed>>)
    ELSE LET normalized == NormalizeEvidenceItems(issue.evidence)
         IN Put(issue, "evidence",
                [k \in 1..Len(normalized) |->
                    MergeEvidenceDefaults(normalized[k], evidence_seed)]
                \o <<evidence_seed>>)

\* what _ensure_issue_evidence leaves in one issue
GroundIssue(issue, evidence_seed) ==
    IF "evidence" \notin DOMAIN issue \/ issue.evidence = <<>>
    THEN Put(issue, "evidence", <<evidence_seed>>)
    ELSE LET normalized == NormalizeEvidenceItems(issue.evidence)
         IN IF normalized # <<>>
            THEN Put(issue, "evidence",
                     [k \in 1..Len(normalized) |->
                         MergeEvidenceDefaults(normalized[k], evidence_seed)])
            ELSE Put(issue, "evidence", <<evidence_seed>>)

\* _ensure_issue_evidence
EnsureIssueEvidence(output, text) ==
    LET pages == SplitPages(text)
        findings == Get(output, "findings", <<>>)
        ground(component) ==
            LET evidence_seed ==
                    BuildEvidenceForComponent(Get(component, "component_id", <<>>),
                                              Get(component, "component_title", <<>>),
                                              Get(component, "tg", ""),
                                              pages)
            IN IF "issues" \notin DOMAIN component THEN component
               ELSE Put(component, "issues",
                        [i \in 1..Len(component.issues) |->
                            GroundIssue(component.issues[i], evidence_seed)])
    IN IF "findings" \notin DOMAIN output THEN output
       ELSE Put(output, "findings",
                [j \in 1..Len(findings) |-> ground(findings[j])])

\* the (rule_id, evidence) pairs in the order the three loops of
\* _ensure_driver_evidence extend issue_evidence_by_rule
RuleContributions(findings) ==
    Flatten([j \in 1..Len(findings) |->
        LET issues == Get(findings[j], "issues", <<>>)
        IN Flatten([i \in 1..Len(issues) |->
              LET refs == Get(issues[i], "rule_refs", <<>>)
              IN [r \in 1..Len(refs) |->
                    [rule_id |-> refs[r],
                     evidence |-> Get(issues[i], "evidence", <<>>)]]])])

\* issue_evidence_by_rule.get(rule_id), <<>> where the key is missing
IssueEvidenceByRule(contribs, rule_id) ==
    Flatten([k \in 1..Len(contribs) |->
                IF contribs[k].rule_id = rule_id THEN contribs[k].evidence ELSE <<>>])

\* the keys of issue_evidence_by_rule in insertion order
RuleOrder(contribs) ==
    LET first == SelectSeq([k \in 1..Len(contribs) |-> k],
                           LAMBDA k : \A h \in 1..(k - 1) :
                                         contribs[h].rule_id # contribs[k].rule_id)
    IN [k \in 1..Len(first) |-> contribs[first[k]].rule_id]

\* normalized or [candidate[0]]
FromCandidates(candidate) ==
    LET normalized == NormalizeEvidenceItems(candidate)
    IN IF normalized # <<>> THEN normalized ELSE <<candidate[1]>>

PlaceholderEvidence ==
    [point_id |-> <<>>, tg |-> "", page |-> 1, heading |-> <<>>,
     source |-> "LOCAL", snippet |-> <<>>,
     match_explain |-> <<"Fallback: no evidence available from issues.">>]

\* not driver.get("evidence")
NoEvidenceYet(driver) == "evidence" \notin DOMAIN driver \/ driver.evidence = <<>>

\* the first element of the selection sel, as a sequence of length <= 1
FirstWhere(sel) == IF sel = <<>> THEN <<>> ELSE <<sel[1]>>

\* what _ensure_driver_evidence leaves in one driver
GroundDriver(driver, contribs) ==
    IF /\ ~NoEvidenceYet(driver)
       /\ NormalizeEvidenceItems(driver.evidence) # <<>>
    THEN Put(driver, "evidence", NormalizeEvidenceItems(driver.evidence))
    ELSE LET by_ref == FirstWhere(SelectSeq(Get(driver, "rule_refs", <<>>),
                           LAMBDA rule_id : IssueEvidenceByRule(contribs, rule_id) # <<>>))
             d1 == IF by_ref # <<>>
                   THEN Put(driver, "evidence",
                            FromCandidates(IssueEvidenceByRule(contribs, by_ref[1])))
                   ELSE driver
             any == FirstWhere(SelectSeq(RuleOrder(contribs),
                        LAMBDA rule_id : IssueEvidenceByRule(contribs, rule_id) # <<>>))
             d2 == IF NoEvidenceYet(d1) /\ any # <<>>
                   THEN Put(d1, "evidence",
                            FromCandidates(IssueEvidenceByRule(contribs, any[1])))
                   ELSE d1
         IN IF NoEvidenceYet(d2) THEN Put(d2, "evidence", <<PlaceholderEvidence>>)
            ELSE d2

\* _ensure_driver_evidence
EnsureDriverEvidence(output) ==
    LET contribs == RuleContributions(Get(output, "findings", <<>>))
    IN IF "top_score_drivers" \notin DOMAIN output THEN output
       ELSE Put(output, "top_score_drivers",
                [k \in 1..Len(output.top_score_drivers) |->
                    GroundDriver(output.top_score_drivers[k], contribs)])

\* ensure_analysis_evidence
EnsureAnalysisEvidence(output, text) ==
    EnsureDriverEvidence(EnsureIssueEvidence(output, text))

\* evidence items a model output carries
ItemValid ==
    [point_id |-> <<"9">>, tg |-> "TG2", page |-> 2, heading |-> <<"H">>,
     source |-> "LOCAL", snippet |-> <<"s">>, match_explain |-> <<"model">>]
ItemAlias == [text |-> <<"t">>]
ItemEmpty == [snippet |-> <<>>, page |-> 1]
ItemNoPage == [snippet |-> <<"s">>, page |-> 0]

IssuePool ==
    { [rule_refs |-> <<"R1">>],
      [rule_refs |-> <<"R2">>, evidence |-> <<ItemValid, ItemEmpty>>],
      [rule_refs |-> <<>>, evidence |-> <<ItemAlias>>],
      [rule_refs |-> <<"R1", "R2">>, evidence |-> <<ItemNoPage>>] }

DriverPool ==
    { [rule_refs |-> <<"R1">>],
      [rule_refs |-> <<"R9">>],
      [rule_refs |-> <<"R9">>, evidence |-> <<ItemEmpty>>],
      [rule_refs |-> <<>>, evidence |-> <<ItemValid, ItemNoPage>>],
      [rule_refs |-> <<"R9", "R2">>] }

C_21  == <<"2", ".", "1">>
C_Tak == <<"T", "a", "k">>
L_Opps == <<"O", "p", "p", "s", "u", "m", "m", "e", "r", "i", "n", "g">>

\* the j-th component of a model output, without its issues
ComponentAt(j) ==
    IF j = 1 THEN [component_id |-> C_21, component_title |-> <<>>, tg |-> "TG2"]
    ELSE IF j = 2 THEN [component_id |-> <<>>, component_title |-> C_Tak, tg |-> ""]
    ELSE [component_id |-> <<>>, component_title |-> <<>>, tg |-> ""]

\* k components, the issues dealt to them in order
DealIssues(k, issues, a) ==
    [j \in 1..k |->
        LET before == Cardinality({i \in 1..Len(issues) : a[i] < j})
            here == Cardinality({i \in 1..Len(issues) : a[i] = j})
        IN ComponentAt(j) @@ ("issues" :> SubSeq(issues, before + 1, before + here))]

PageText(lines) == Flatten([k \in 1..Len(lines) |-> lines[k] \o <<"\n">>])

\* report texts: no page marker, an empty first page, a summary page naming
\* component 2.1, two pages of which the second names "Tak"
ReportTexts ==
    { <<>>,
      <<[marker |-> 1, text |-> <<>>]>>,
      <<[marker |-> 1, text |-> PageText(<<L_Opps, L_21_Bad>>)]>>,
      <<[marker |-> 1, text |-> PageText(<<L_TG3>>)],
        [marker |-> 2, text |-> PageText(<<L_1_Tak>>)]>> }

\* a model output of at most MaxComponents components carrying at most
\* MaxIssues issues in total and at most MaxDrivers score drivers, and the
\* text of its report
InitGround ==
    /\ \E k \in 0..MaxComponents :
       \E issues \in IF k = 0 THEN {<<>>} ELSE SeqsUpTo(IssuePool, MaxIssues) :
       \E a \in Deals(Len(issues), k) :
       \E drivers \in SeqsUpTo(DriverPool, MaxDrivers) :
          analysis_output = [findings |-> DealIssues(k, issues, a),
                             top_score_drivers |-> drivers]
    /\ input_output = analysis_output
    /\ report_text \in ReportTexts
    /\ epc = "input"
    /\ scoring_model_text = [parse_ok |-> FALSE, payload |-> <<>>]
    /\ category_totals = <<>>
    /\ has_deductions = FALSE
    /\ pc = "idle"
    /\ detected = <<>>
    /\ dpc = "idle"
    /\ FeedbackIdle
    /\ CacheIdle
    /\ RegistryIdle
    /\ ReportIdle
    /\ CreditIdle
    /\ WorkerIdle

\* one call of ensure_analysis_evidence(analysis_output, report_text)
Ground ==
    /\ epc \in {"input", "grounded"}
    /\ analysis_output' = EnsureAnalysisEvidence(analysis_output, report_text)
    /\ epc' = IF epc = "input" THEN "grounded" ELSE "regrounded"
    /\ UNCHANGED <<scoring_model_text, input_output, category_totals,
                   has_deductions, pc, report_text, detected, dpc>>
    /\ UNCHANGED <<feedbackVars, cacheVars, registryVars>>
    /\ UNCHANGED <<reportVars, creditVars, workerVars>>

NextGround == Ground

SpecGround == InitGround /\ [][NextGround]_vars

----------------------------------------------------------------------------
(* Part IV: ordering and feedback assembly                                  *)
(*                                                                          *)
(* Point ids, keys and labels are character sequences (numeric ids are      *)
(* split and parsed); a missing field and None are an absent key.  Of a     *)
(* feedback finding the model keeps the identifying fields, of the feedback *)
(* object the ordering, points_overview and findings.                       *)

MaxPoints == 3
MaxUniformPoints == 10

DigitSeq == <<"0", "1", "2", "3", "4", "5", "6", "7", "8", "9">>

DigitValue(c) == (CHOOSE i \in 1..10 : DigitSeq[i] = c) - 1

\* int(part) on a sequence of digits
RECURSIVE ParseInt(_)
ParseInt(part) ==
    IF part = <<>> THEN 0
    ELSE 10 * ParseInt(SubSeq(part, 1, Len(part) - 1)) + DigitValue(part[Len(part)])

\* str(n) for n >= 0
RECURSIVE DigitsOf(_)
DigitsOf(n) ==
    IF n < 10 THEN <<DigitSeq[n + 1]>>
    ELSE DigitsOf(n \div 10) \o <<DigitSeq[(n % 10) + 1]>>

\* value.split(".")
RECURSIVE SplitDots(_)
SplitDots(value) ==
    IF \A i \in 1..Len(value) : value[i] # "." THEN <<value>>
    ELSE LET i == CHOOSE j \in 1..Len(value) :
                      /\ value[j] = "."
                      /\ \A k \in 1..(j - 1) : value[k] # "."
         IN <<SubSeq(value, 1, i - 1)>> \o SplitDots(SubSeq(value, i + 1, Len(value)))

\* str.isdigit()
IsDigit(part) == part # <<>> /\ \A i \in 1..Len(part) : part[i] \in Digits

\* _parse_numeric_id
ParseNumericId(value) ==
    LET parts == SelectSeq(SplitDots(value), IsDigit)
    IN [i \in 1..Len(parts) |-> ParseInt(parts[i])]

\* _compare_numeric_ids with the ids compared as character strings
CompareNumericIds_Lexical(a, b) ==
    LET code(c) == IF c = "." THEN 0 ELSE DigitValue(c) + 1
        diff == {i \in 1..Min(Len(a), Len(b)) : a[i] # b[i]}
    IN IF diff = {}
       THEN (IF Len(a) < Len(b) THEN 0 - 1 ELSE IF Len(a) > Len(b) THEN 1 ELSE 0)
       ELSE LET i == CHOOSE x \in diff : \A y \in diff : x <= y
            IN IF code(a[i]) < code(b[i]) THEN 0 - 1 ELSE 1

\* _compare_numeric_ids
CompareNumericIds(a, b) ==
    LET arr_a == ParseNumericId(a)
        arr_b == ParseNumericId(b)
        max_len == Max(Len(arr_a), Len(arr_b))
        decided == {i \in 1..max_len :
                       \/ i > Len(arr_a) \/ i > Len(arr_b)
                       \/ arr_a[i] # arr_b[i]}
    IN IF decided = {} THEN 0
       ELSE LET i == CHOOSE x \in decided : \A y \in decided : x <= y
            IN IF i > Len(arr_a) THEN 0 - 1
               ELSE IF i > Len(arr_b) THEN 1
               ELSE IF arr_a[i] < arr_b[i] THEN 0 - 1
               ELSE 1

\* d.get(k) or <the falsy value>
GetOr(d, k) == Get(d, k, Falsy(k))

\* _numeric_id_for_point
NumericIdForPoint(point) ==
    LET numeric_id == IF ~NotGet(point, "numeric_id") THEN point.numeric_id
                      ELSE GetOr(point, "point_id")
    IN IF IsNumericPointId(numeric_id) THEN numeric_id ELSE <<>>

\* _point_key_for_point
PointKeyForPoint(point) ==
    IF ~NotGet(point, "point_key") THEN point.point_key
    ELSE IF ~NotGet(point, "point_id") THEN point.point_id
    ELSE GetOr(point, "native_label")

\* _detect_sort_mode with a strict threshold
DetectSortMode_Strict(points) ==
    IF points = <<>> THEN "DOCUMENT_ORDER"
    ELSE LET numeric_count ==
                 Cardinality({i \in 1..Len(points) : NumericIdForPoint(points[i]) # <<>>})
         IN IF 10 * numeric_count > 7 * Len(points) THEN "NUMERIC"
            ELSE "DOCUMENT_ORDER"

\* _detect_sort_mode: numeric_count / len(points) >= 0.7
DetectSortMode(points) ==
    IF points = <<>> THEN "DOCUMENT_ORDER"
    ELSE LET numeric_count ==
                 Cardinality({i \in 1..Len(points) : NumericIdForPoint(points[i]) # <<>>})
         IN IF 10 * numeric_count >= 7 * Len(points) THEN "NUMERIC"
            ELSE "DOCUMENT_ORDER"

IdxPrefix == <<"i", "d", "x", "-">>

\* the key _dedupe_points files the point at 0-based position idx under
DedupeKey(point, idx, dedupe_key) ==
    LET numeric == IF dedupe_key = "numeric_id" THEN NumericIdForPoint(point) ELSE <<>>
        key == IF numeric # <<>> THEN numeric ELSE PointKeyForPoint(point)
    IN IF key # <<>> THEN key ELSE IdxPrefix \o DigitsOf(idx)

MergedKeys == <<"tg", "anchor_text", "excerpt", "page_start", "page_end">>

\* the five conditional assignments of _dedupe_points
RECURSIVE MergePoint(_, _, _)
MergePoint(existing, point, k) ==
    IF k > Len(MergedKeys) THEN existing
    ELSE LET key == MergedKeys[k]
         IN MergePoint(IF NotGet(existing, key) /\ ~NotGet(point, key)
                       THEN Put(existing, key, point[key])
                       ELSE existing,
                       point, k + 1)

\* _dedupe_points keeping the last point filed under a key
RECURSIVE DedupePoints_LastWins(_, _, _, _)
DedupePoints_LastWins(points, dedupe_key, idx, unique) ==
    IF idx >= Len(points) THEN [k \in 1..Len(unique) |-> unique[k].point]
    ELSE LET point == points[idx + 1]
             key == DedupeKey(point, idx, dedupe_key)
             at == {k \in 1..Len(unique) : unique[k].key = key}
         IN IF at = {}
            THEN DedupePoints_LastWins(points, dedupe_key, idx + 1,
                              Append(unique, [key |-> key, point |-> point]))
            ELSE LET k == CHOOSE x \in at : TRUE
                 IN DedupePoints_LastWins(points, dedupe_key, idx + 1,
                        [unique EXCEPT ![k].point = point])

\* _dedupe_points; unique is the dict, in insertion order
RECURSIVE DedupePoints(_, _, _, _)
DedupePoints(points, dedupe_key, idx, unique) ==
    IF idx >= Len(points) THEN [k \in 1..Len(unique) |-> unique[k].point]
    ELSE LET point == points[idx + 1]
             key == DedupeKey(point, idx, dedupe_key)
             at == {k \in 1..Len(unique) : unique[k].key = key}
         IN IF at = {}
            THEN DedupePoints(points, dedupe_key, idx + 1,
                              Append(unique, [key |-> key, point |-> point]))
            ELSE LET k == CHOOSE x \in at : TRUE
                 IN DedupePoints(points, dedupe_key, idx + 1,
                        [unique EXCEPT ![k].point = MergePoint(@, point, 1)])

\* the list handed to _dedupe_points as the call leaves it: unique[key] is
\* the dict object of the first point filed under key, so the five
\* assignments change that element of the list itself
DedupedInPlace(points, dedupe_key) ==
    LET key(i) == DedupeKey(points[i], i - 1, dedupe_key)
        first == {i \in 1..Len(points) : \A j \in 1..(i - 1) : key(j) # key(i)}
        unique == DedupePoints(points, dedupe_key, 0, <<>>)
    IN [i \in 1..Len(points) |->
           IF i \in first
           THEN unique[Cardinality({j \in first : j <= i})]
           ELSE points[i]]

CmpNumeric(a, b) ==
    LET a_id == NumericIdForPoint(a)
        b_id == NumericIdForPoint(b)
    IN IF a_id = <<>> /\ b_id = <<>> THEN 0
       ELSE IF a_id = <<>> THEN 1
       ELSE IF b_id = <<>> THEN 0 - 1
       ELSE CompareNumericIds(a_id, b_id)

CmpInt(x, y) == IF x < y THEN 0 - 1 ELSE IF x > y THEN 1 ELSE 0

\* the comparison behind each sort of _sort_points: _cmp for "numeric_id",
\* the integer key for "order_in_doc" and "page_start"
CmpBy(order, a, b) ==
    IF order = "numeric_id" THEN CmpNumeric(a, b)
    ELSE CmpInt(GetOr(a, order), GetOr(b, order))

\* sorted(seq, key=...) under the comparison named order: the stable order
StableSort(seq, order) ==
    LET rank(i) == Cardinality({j \in 1..Len(seq) :
                        \/ CmpBy(order, seq[j], seq[i]) < 0
                        \/ CmpBy(order, seq[j], seq[i]) = 0 /\ j < i})
    IN [r \in 1..Len(seq) |-> seq[CHOOSE i \in 1..Len(seq) : rank(i) = r - 1]]

\* the points list of the payload after _sort_points(points)
PointsAfterSort(points) ==
    DedupedInPlace(points, IF DetectSortMode(points) = "NUMERIC"
                           THEN "numeric_id" ELSE "point_key")

\* _sort_points
SortPoints(points) ==
    LET mode == DetectSortMode(points)
    IN IF mode = "NUMERIC"
       THEN [mode |-> mode, dedupe_key |-> "numeric_id",
             sorted_points |-> StableSort(DedupePoints(points, "numeric_id", 0, <<>>),
                                          "numeric_id")]
       ELSE LET unique_points == DedupePoints(points, "point_key", 0, <<>>)
            IN [mode |-> mode, dedupe_key |-> "point_key",
                sorted_points |->
                    IF \A k \in 1..Len(unique_points) :
                          "order_in_doc" \in DOMAIN unique_points[k]
                    THEN StableSort(unique_points, "order_in_doc")
                    ELSE StableSort(unique_points, "page_start")]


PointIdKeys == <<"point_id", "numeric_id", "point_key", "native_label">>

\* allowed_point_ids
AllowedPointIds(points) ==
    {GetOr(points[i], PointIdKeys[k]) :
        i \in 1..Len(points), k \in 1..Len(PointIdKeys)} \ {<<>>}

\* point_lookup.get(key, {})
PointLookup(points, key) ==
    LET has == {i \in 1..Len(points) :
                   \E k \in 1..Len(PointIdKeys) : GetOr(points[i], PointIdKeys[k]) = key}
    IN IF has = {} THEN <<>>
       ELSE points[CHOOSE i \in has : \A j \in has : i <= j]

\* the components the findings loop does not skip
AllowedComponents(output, points) ==
    SelectSeq(Get(output, "findings", <<>>),
              LAMBDA c : /\ GetOr(c, "component_id") # <<>>
                         /\ GetOr(c, "component_id") \in AllowedPointIds(points))

\* deduction_totals.get(point_id, 0): the sum of the last component filed
\* under point_id
DeductionTotals(components, point_id) ==
    LET at == {j \in 1..Len(components) : components[j].component_id = point_id}
    IN IF at = {} THEN 0
       ELSE LET last == CHOOSE j \in at : \A h \in at : h <= j
                deductions == Get(components[last], "deductions", <<>>)
            IN SumSeq([d \in 1..Len(deductions) |-> deductions[d].points])

\* the feedback findings of one component
ComponentFindings(component, points) ==
    LET point_id == component.component_id
        issues == Get(component, "issues", <<>>)
        deductions == Get(component, "deductions", <<>>)
        point_meta == PointLookup(points, point_id)
    IN [issue_idx \in 1..Len(issues) |->
          LET rule_refs == Get(issues[issue_idx], "rule_refs", <<>>)
              rule_id == IF rule_refs # <<>> THEN rule_refs[1] ELSE "unknown"
              same_rule == SelectSeq(deductions, LAMBDA d : d.rule_id = rule_id)
          IN [finding_id |-> <<"f", point_id, issue_idx>>,
              rule_id |-> rule_id,
              point_id |-> point_id,
              point_key |-> IF ~NotGet(point_meta, "point_key")
                            THEN point_meta.point_key ELSE point_id,
              deduction |-> IF same_rule # <<>> THEN same_rule[1].points ELSE 0]]

\* one entry of points_overview, before display_index is set
OverviewEntry(point, output, components, feedback_findings) ==
    LET point_id == IF ~NotGet(point, "point_id") THEN point.point_id
                    ELSE IF ~NotGet(point, "numeric_id") THEN point.numeric_id
                    ELSE GetOr(point, "native_label")
        point_key == IF ~NotGet(point, "point_key") THEN point.point_key ELSE point_id
        same_id == SelectSeq(Get(output, "findings", <<>>),
                             LAMBDA c : GetOr(c, "component_id") = point_id)
        issues == IF same_id # <<>> THEN Get(same_id[1], "issues", <<>>) ELSE <<>>
        deduction_total == DeductionTotals(components, point_id)
        status == IF deduction_total > 0 THEN "deduction"
                  ELSE IF issues # <<>> THEN "improve"
                  ELSE "ok"
        first_summary == IF issues # <<>> THEN GetOr(issues[1], "summary") ELSE ""
        own == SelectSeq(feedback_findings, LAMBDA f : f.point_id = point_id)
    IN [point_id |-> point_id,
        point_key |-> point_key,
        native_label |-> IF ~NotGet(point, "native_label") THEN point.native_label
                         ELSE IF point_id # <<>> THEN point_id
                         ELSE IF point_key # <<>> THEN point_key
                         ELSE Ukjent,
        numeric_id |-> IF ~NotGet(point, "numeric_id") THEN point.numeric_id
                       ELSE NumericIdForPoint(point),
        title |-> IF ~NotGet(point, "title") THEN point.title ELSE Ukjent,
        tg |-> IF ~NotGet(point, "tg") THEN point.tg
               ELSE IF same_id # <<>> /\ ~NotGet(same_id[1], "tg") THEN same_id[1].tg
               ELSE "UNKNOWN",
        status |-> status,
        summary |-> IF status = "improve"
                    THEN (IF first_summary # "" THEN first_summary
                          ELSE "Mindre forbedringer anbefales.")
                    ELSE IF status = "deduction"
                    THEN (IF first_summary # "" THEN first_summary
                          ELSE "Trekk er registrert for punktet.")
                    ELSE "OK - ingen endringer nodvendig.",
        deduction_total |-> Max(deduction_total, 0),
        finding_ids |-> [k \in 1..Len(own) |-> own[k].finding_id],
        where |-> IF ~NotGet(point, "anchor_text")
                  THEN [page |-> IF ~NotGet(point, "page_start") THEN point.page_start ELSE 1,
                        anchor_text |-> point.anchor_text]
                  ELSE [page |-> IF ~NotGet(point, "page_start") THEN point.page_start ELSE 1]]

\* _build_feedback_v11
BuildFeedbackV11(output, points) ==
    LET components == AllowedComponents(output, points)
        feedback_findings ==
            Flatten([j \in 1..Len(components) |-> ComponentFindings(components[j], points)])
        sorted == SortPoints(points)
        shown == SelectSeq(sorted.sorted_points,
                           LAMBDA p : GetOr(p, "kind") \in {"", "point", "subpoint"})
    IN [ordering |-> [mode |-> sorted.mode, dedupe_key |-> sorted.dedupe_key],
        points_overview |->
            [n \in 1..Len(shown) |->
                OverviewEntry(shown[n], output, components, feedback_findings)
                @@ ("display_index" :> n)],
        findings |-> feedback_findings]


\* a point of a detected-points payload; a field given as empty is absent
Pt(key, label, tg, anchor, excerpt, page_start, page_end, kind) ==
    LET all == [point_key |-> key, native_label |-> label, point_id |-> label,
                numeric_id |-> IF IsNumericPointId(label) THEN label ELSE <<>>,
                kind |-> kind, title |-> <<"T">>, tg |-> tg,
                anchor_text |-> anchor, excerpt |-> excerpt,
                page_start |-> page_start, page_end |-> page_end]
        present == {k \in DOMAIN all : all[k] # Falsy(k)}
    IN [k \in present |-> all[k]]

Ordered(point, order_in_doc) == Put(point, "order_in_doc", order_in_doc)

PointPool ==
    { Ordered(Pt(<<"P", "1">>, <<"2">>, "", <<>>, <<"x">>, 1, 1, "point"), 1),
      Ordered(Pt(<<"P", "2">>, <<"2", ".", "1">>, "", <<>>, <<>>, 0, 0, "point"), 2),
      Ordered(Pt(<<"P", "3">>, <<"2", ".", "1", ".", "3">>, "TG1", <<"a">>, <<"x">>, 1, 2, "subpoint"), 3),
      Ordered(Pt(<<"P", "4">>, <<"2", ".", "9">>, "TG2", <<"a">>, <<"x">>, 2, 2, "point"), 4),
      Ordered(Pt(<<"P", "5">>, <<"2", ".", "1", "0">>, "", <<"a">>, <<"x">>, 3, 3, "point"), 5),
      Ordered(Pt(<<"P", "6">>, <<"2", ".", "1">>, "TG3", <<"b">>, <<"y">>, 4, 5, "point"), 6),
      Pt(<<"P", "7">>, <<"A">>, "", <<"a">>, <<>>, 2, 2, "point"),
      Pt(<<"P", "7">>, <<"B">>, "TG1", <<"b">>, <<"y">>, 1, 1, "point"),
      Ordered(Pt(<<"P", "9">>, <<"C">>, "", <<"a">>, <<"x">>, 3, 3, "appendix"), 3) }

\* n points in document order of which the first k carry a numeric id
UniformPoints(n, k) ==
    [i \in 1..n |->
        Ordered(Pt(<<"U">> \o DigitsOf(i),
                   IF i <= k THEN DigitsOf(i) ELSE <<"X">> \o DigitsOf(i),
                   "", <<"a">>, <<"x">>, i, i, "point"), i)]

Issue(rule_refs, summary) == [rule_refs |-> rule_refs, summary |-> summary]
Deduction(rule_id, pts) == [rule_id |-> rule_id, points |-> pts]
Scored(id, tg, issues, deductions) ==
    [component_id |-> id, tg |-> tg, issues |-> issues, deductions |-> deductions]

\* findings of a model output: none; a component with an issue; with an
\* issue and a deduction; two components under one id; a negative total and
\* a component under a label
FindingsPool ==
    { <<>>,
      <<Scored(<<"2", ".", "1">>, "TG2", <<Issue(<<"R1">>, "s1")>>, <<>>)>>,
      <<Scored(<<"2", ".", "1">>, "TG2", <<Issue(<<"R1">>, "")>>, <<Deduction("R1", 5)>>)>>,
      <<Scored(<<"2", ".", "1">>, "TG2", <<Issue(<<"R1">>, "s1")>>, <<Deduction("R1", 5)>>),
        Scored(<<"2", ".", "1">>, "", <<>>, <<>>)>>,
      <<Scored(<<"2", ".", "9">>, "", <<>>, <<Deduction("R2", 0 - 5)>>),
        Scored(<<"A">>, "TG1", <<Issue(<<>>, "s2"), Issue(<<"R2">>, "")>>,
               <<Deduction("R2", 3), Deduction("R2", 4)>>)>> }

\* a model output and a payload of at most MaxPoints points, or of at most
\* MaxUniformPoints points that differ only in carrying a numeric id
InitFeedback ==
    /\ \/ detected_points \in SeqsUpTo(PointPool, MaxPoints)
       \/ \E n \in 1..MaxUniformPoints : \E k \in 0..n : detected_points = UniformPoints(n, k)
    /\ \E findings \in FindingsPool :
          analysis_output = [findings |-> findings]
    /\ input_output = analysis_output
    /\ payload_points = detected_points
    /\ sorted_points = <<>>
    /\ feedback = <<>>
    /\ fpc = "input"
    /\ scoring_model_text = [parse_ok |-> FALSE, payload |-> <<>>]
    /\ category_totals = <<>>
    /\ has_deductions = FALSE
    /\ pc = "idle"
    /\ DetectIdle
    /\ GroundIdle
    /\ CacheIdle
    /\ RegistryIdle
    /\ ReportIdle
    /\ CreditIdle
    /\ WorkerIdle

\* one call of build_feedback_v11(analysis_output, {"points": detected_points}, ...)
BuildFeedback ==
    /\ fpc = "input"
    /\ sorted_points' = SortPoints(detected_points)
    /\ payload_points' = PointsAfterSort(detected_points)
    /\ feedback' = BuildFeedbackV11(analysis_output, detected_points)
    /\ fpc' = "built"
    /\ UNCHANGED <<scoring_model_text, analysis_output, input_output,
                   category_totals, has_deductions, pc, report_text, detected,
                   dpc, epc, detected_points>>
    /\ UNCHANGED <<cacheVars, registryVars>>
    /\ UNCHANGED <<reportVars, creditVars, workerVars>>

NextFeedback == BuildFeedback

SpecFeedback == InitFeedback /\ [][NextFeedback]_vars

----------------------------------------------------------------------------
(* Part V: the analysis cache and the upload flow around it                 *)
(*                                                                          *)
(* Table document_analysis_cache is the set of its committed rows.  Every   *)
(* upload request runs upload_report in a database session of its own: its  *)
(* queries read the committed rows, and the cache write it makes stays in   *)
(* its session until db.commit().  A payload is a token naming what it is,  *)
(* the document it was derived from and the run that produced it.           *)

\* number of upload requests served concurrently
MaxUploads == 2

Uploads == 1..MaxUploads

\* Python None and the empty string: the values `if x:` takes for absent
Absent == ""

\* SQL NULL in column updated_at, which the migration gives no default
NULL == 0

\* a payload that is not a dict
NonePayload ==
    [kind |-> "none", part |-> "", document_hash |-> "", run |-> 0,
     renormalized |-> FALSE]

\* the dict payload `part` that run `run` derived from document document_hash;
\* run is the document_id the run was given, which its feedback_v11 carries
\* as report_id
DictPayload(part, document_hash, run) ==
    [kind |-> "dict", part |-> part, document_hash |-> document_hash,
     run |-> run, renormalized |-> FALSE]

\* isinstance(payload, dict)
IsDict(payload) == payload.kind = "dict"

\* ORDER BY updated_at DESC NULLS LAST, id DESC: row a comes before row b
ComesBefore(a, b) ==
    IF a.updated_at # b.updated_at
    THEN b.updated_at = NULL \/ (a.updated_at # NULL /\ a.updated_at > b.updated_at)
    ELSE a.id > b.id

\* query.first() under that order: no row, or the one row that comes first
First(rows) == {row \in rows : \A other \in rows \ {row} : ComesBefore(row, other)}

\* get_cached_analysis(db, document_hash, scoring_model_sha, pipeline_git_sha)
\* over the rows the session can read
GetCachedAnalysis(table, document_hash, scoring_model_sha, pipeline_git_sha) ==
    IF document_hash = Absent THEN {}
    ELSE LET by_hash == {row \in table : row.document_hash = document_hash}
             by_model == IF scoring_model_sha # Absent
                         THEN {row \in by_hash : row.scoring_model_sha = scoring_model_sha}
                         ELSE by_hash
             by_pipeline == IF pipeline_git_sha # Absent
                            THEN {row \in by_model : row.pipeline_git_sha = pipeline_git_sha}
                            ELSE by_model
         IN First(by_pipeline)

\* upsert_analysis_cache(db, ...): the write the session holds afterwards, an
\* insert of a new row when the query found none, else an update of the row
\* it found
UpsertAnalysisCache(table, document_hash, scoring_model_sha, pipeline_git_sha, detected_points_payload, scoring_result, ai_analysis) ==
    LET found == {row \in table : /\ row.document_hash = document_hash
                                  /\ row.scoring_model_sha = scoring_model_sha
                                  /\ row.pipeline_git_sha = pipeline_git_sha}
    IN IF found = {}
       THEN [op |-> "insert",
             row |-> [id |-> 0,
                      document_hash |-> document_hash,
                      scoring_model_sha |-> scoring_model_sha,
                      pipeline_git_sha |-> pipeline_git_sha,
                      detected_points |-> detected_points_payload,
                      scoring_result |-> scoring_result,
                      ai_analysis |-> ai_analysis,
                      updated_at |-> NULL]]
       ELSE [op |-> "update",
             row |-> [(CHOOSE row \in found : TRUE) EXCEPT
                         !.detected_points = detected_points_payload,
                         !.scoring_result = scoring_result,
                         !.ai_analysis = ai_analysis]]

\* unique index ix_document_analysis_cache_hash: a committed row already
\* holds the triple of the row to insert
UniqueViolation(table, row) ==
    \E other \in table : /\ other.document_hash = row.document_hash
                         /\ other.scoring_model_sha = row.scoring_model_sha
                         /\ other.pipeline_git_sha = row.pipeline_git_sha

\* the test that takes an entry for usable only when a payload is no dict
CacheHit_Inverted(entry) ==
    /\ entry # {}
    /\ \A row \in entry : \/ ~IsDict(row.ai_analysis)
                          \/ ~IsDict(row.detected_points)
                          \/ ~IsDict(row.scoring_result)

\* the condition under which upload_report answers from the cache
CacheHit(entry) ==
    /\ entry # {}
    /\ \A row \in entry : /\ IsDict(row.ai_analysis)
                          /\ IsDict(row.detected_points)
                          /\ IsDict(row.scoring_result)

\* the payloads the cache-hit branch derives from the entry: the analysis is
\* normalized and grounded again and put back into scoring_result
PayloadsFromCache(row) ==
    [detected_points |-> row.detected_points,
     scoring_result |-> [row.scoring_result EXCEPT !.renormalized = TRUE],
     ai_analysis |-> [row.ai_analysis EXCEPT !.renormalized = TRUE]]

\* the payloads analyze_report returns: three dicts
AnalyzeReport(document_hash, run) ==
    [detected_points |-> DictPayload("detected_points", document_hash, run),
     scoring_result |-> DictPayload("scoring_result", document_hash, run),
     ai_analysis |-> DictPayload("ai_analysis", document_hash, run)]

\* the triples uploads are keyed on: the hash of the extracted text, the
\* scoring-model hash and the pipeline hash in force; each of the last three
\* differs from the first in one component
Triples ==
    { [document_hash |-> "h1", scoring_model_sha |-> "m1", pipeline_git_sha |-> "p1"],
      [document_hash |-> "h2", scoring_model_sha |-> "m1", pipeline_git_sha |-> "p1"],
      [document_hash |-> "h1", scoring_model_sha |-> "m2", pipeline_git_sha |-> "p1"],
      [document_hash |-> "h1", scoring_model_sha |-> "m1", pipeline_git_sha |-> "p2"] }

\* an empty cache table and MaxUploads uploads about to look the cache up
InitCache ==
    /\ cache_table = {}
    /\ next_id = 1
    /\ upload \in [Uploads -> Triples]
    /\ rpc = [r \in Uploads |-> "lookup"]
    /\ cache_entry = [r \in Uploads |-> {}]
    /\ analysis = [r \in Uploads |-> {}]
    /\ pending = [r \in Uploads |-> {}]
    /\ response = [r \in Uploads |-> "none"]
    /\ model_calls = [r \in Uploads |-> 0]
    /\ scoring_model_text = [parse_ok |-> FALSE, payload |-> <<>>]
    /\ analysis_output = <<>>
    /\ input_output = <<>>
    /\ category_totals = <<>>
    /\ has_deductions = FALSE
    /\ pc = "idle"
    /\ DetectIdle
    /\ GroundIdle
    /\ FeedbackIdle
    /\ RegistryIdle
    /\ ReportIdle
    /\ CreditIdle
    /\ WorkerIdle

\* upload_report, lines 146-158: the cache lookup and the test of its result
Lookup(r) ==
    /\ rpc[r] = "lookup"
    /\ LET entry == GetCachedAnalysis(cache_table, upload[r].document_hash,
                                      upload[r].scoring_model_sha,
                                      upload[r].pipeline_git_sha)
       IN /\ cache_entry' = [cache_entry EXCEPT ![r] = entry]
          /\ rpc' = [rpc EXCEPT ![r] = IF CacheHit(entry) THEN "hit" ELSE "miss"]
    /\ UNCHANGED <<cache_table, next_id, upload, analysis, pending, response,
                   model_calls>>
    /\ UNCHANGED pipelineVars
    /\ UNCHANGED <<reportVars, creditVars, workerVars>>

\* upload_report, lines 159-241: the cache-hit branch up to its
\* upsert_analysis_cache call
ServeFromCache(r) ==
    /\ rpc[r] = "hit"
    /\ \E row \in cache_entry[r] :
          LET payloads == PayloadsFromCache(row)
          IN /\ analysis' = [analysis EXCEPT ![r] = {payloads}]
             /\ pending' = [pending EXCEPT ![r] =
                   {UpsertAnalysisCache(cache_table, upload[r].document_hash,
                                        upload[r].scoring_model_sha,
                                        upload[r].pipeline_git_sha,
                                        payloads.detected_points,
                                        payloads.scoring_result,
                                        payloads.ai_analysis)}]
    /\ rpc' = [rpc EXCEPT ![r] = "stored"]
    /\ UNCHANGED <<cache_table, next_id, upload, cache_entry, response, model_calls>>
    /\ UNCHANGED pipelineVars
    /\ UNCHANGED <<reportVars, creditVars, workerVars>>

\* upload_report, lines 299-336: the report is queued for the worker and the
\* upload answers "processing"
Enqueue(r) ==
    /\ rpc[r] = "miss"
    /\ rpc' = [rpc EXCEPT ![r] = "done"]
    /\ response' = [response EXCEPT ![r] = "processing"]
    /\ UNCHANGED <<cache_table, next_id, upload, cache_entry, analysis, pending,
                   model_calls>>
    /\ UNCHANGED pipelineVars
    /\ UNCHANGED <<reportVars, creditVars, workerVars>>

\* the id of the Report row upload r creates
ReportId(r) == r

\* upload_report, lines 342-352: analyze_report invokes the generative model
\* and returns
Analyze(r) ==
    /\ rpc[r] = "miss"
    /\ model_calls' = [model_calls EXCEPT ![r] = @ + 1]
    /\ analysis' = [analysis EXCEPT ![r] = {AnalyzeReport(upload[r].document_hash, ReportId(r))}]
    /\ rpc' = [rpc EXCEPT ![r] = "analysed"]
    /\ UNCHANGED <<cache_table, next_id, upload, cache_entry, pending, response>>
    /\ UNCHANGED pipelineVars
    /\ UNCHANGED <<reportVars, creditVars, workerVars>>

\* analyze_report raises (model call, parsing, normalization, grounding or
\* feedback assembly of the live path): the handler of upload_report rolls
\* back and answers with status 500
AnalyzeFails(r) ==
    /\ rpc[r] = "miss"
    /\ model_calls' = [model_calls EXCEPT ![r] = @ + 1]
    /\ rpc' = [rpc EXCEPT ![r] = "failed"]
    /\ response' = [response EXCEPT ![r] = "failed"]
    /\ UNCHANGED <<cache_table, next_id, upload, cache_entry, analysis, pending>>
    /\ UNCHANGED pipelineVars
    /\ UNCHANGED <<reportVars, creditVars, workerVars>>

\* upload_report, lines 365-373: upsert_analysis_cache with the fresh payloads
StoreAnalysis(r) ==
    /\ rpc[r] = "analysed"
    /\ \E payloads \in analysis[r] :
          pending' = [pending EXCEPT ![r] =
             {UpsertAnalysisCache(cache_table, upload[r].document_hash,
                                  upload[r].scoring_model_sha,
                                  upload[r].pipeline_git_sha,
                                  payloads.detected_points,
                                  payloads.scoring_result,
                                  payloads.ai_analysis)}]
    /\ rpc' = [rpc EXCEPT ![r] = "stored"]
    /\ UNCHANGED <<cache_table, next_id, upload, cache_entry, analysis, response,
                   model_calls>>
    /\ UNCHANGED pipelineVars
    /\ UNCHANGED <<reportVars, creditVars, workerVars>>

\* upload_report, lines 242 and 374: write_run_exports returns, and the rows
\* of the report are added to the session
WriteRunExports(r) ==
    /\ rpc[r] = "stored"
    /\ rpc' = [rpc EXCEPT ![r] = "commit"]
    /\ UNCHANGED <<cache_table, next_id, upload, cache_entry, analysis, pending,
                   response, model_calls>>
    /\ UNCHANGED pipelineVars
    /\ UNCHANGED <<reportVars, creditVars, workerVars>>

\* the handler that commits the session instead of rolling it back
StageFails_NoRollback(r) ==
    /\ rpc[r] \in {"hit", "stored"}
    /\ IF \E write \in pending[r] : write.op = "insert" /\ ~UniqueViolation(cache_table, write.row)
       THEN /\ cache_table' = cache_table \cup {[write.row EXCEPT !.id = next_id] : write \in pending[r]}
            /\ next_id' = next_id + 1
       ELSE /\ cache_table' = {IF \E write \in pending[r] : write.op = "update" /\ write.row.id = row.id
                                THEN CHOOSE new \in {write.row : write \in pending[r]} : TRUE
                                ELSE row : row \in cache_table}
            /\ next_id' = next_id
    /\ pending' = [pending EXCEPT ![r] = {}]
    /\ rpc' = [rpc EXCEPT ![r] = "failed"]
    /\ response' = [response EXCEPT ![r] = "failed"]
    /\ UNCHANGED <<upload, cache_entry, analysis, model_calls>>
    /\ UNCHANGED pipelineVars
    /\ UNCHANGED <<reportVars, creditVars, workerVars>>

\* a stage raises before db.commit(): normalization, grounding or feedback
\* assembly on the cache-hit branch, or write_run_exports on either branch;
\* the handler of upload_report rolls the session back and answers with
\* status 500
StageFails(r) ==
    /\ rpc[r] \in {"hit", "stored"}
    /\ pending' = [pending EXCEPT ![r] = {}]
    /\ rpc' = [rpc EXCEPT ![r] = "failed"]
    /\ response' = [response EXCEPT ![r] = "failed"]
    /\ UNCHANGED <<cache_table, next_id, upload, cache_entry, analysis, model_calls>>
    /\ UNCHANGED pipelineVars
    /\ UNCHANGED <<reportVars, creditVars, workerVars>>

\* db.commit() succeeds: the session's write reaches the table
Commit(r) ==
    /\ rpc[r] = "commit"
    /\ \E write \in pending[r] :
          IF write.op = "insert"
          THEN /\ ~UniqueViolation(cache_table, write.row)
               /\ cache_table' = cache_table \cup {[write.row EXCEPT !.id = next_id]}
               /\ next_id' = next_id + 1
          ELSE /\ cache_table' = {IF row.id = write.row.id THEN write.row ELSE row :
                                    row \in cache_table}
               /\ next_id' = next_id
    /\ pending' = [pending EXCEPT ![r] = {}]
    /\ rpc' = [rpc EXCEPT ![r] = "done"]
    /\ response' = [response EXCEPT ![r] = "completed"]
    /\ UNCHANGED <<upload, cache_entry, analysis, model_calls>>
    /\ UNCHANGED pipelineVars
    /\ UNCHANGED <<reportVars, creditVars, workerVars>>

\* db.commit() raises on the unique index: the handler of upload_report
\* rolls back, marks the report failed and answers with status 500
CommitFails(r) ==
    /\ rpc[r] = "commit"
    /\ \E write \in pending[r] :
          /\ write.op = "insert"
          /\ UniqueViolation(cache_table, write.row)
    /\ pending' = [pending EXCEPT ![r] = {}]
    /\ rpc' = [rpc EXCEPT ![r] = "failed"]
    /\ response' = [response EXCEPT ![r] = "failed"]
    /\ UNCHANGED <<cache_table, next_id, upload, cache_entry, analysis, model_calls>>
    /\ UNCHANGED pipelineVars
    /\ UNCHANGED <<reportVars, creditVars, workerVars>>

NextCache ==
    \/ \E r \in Uploads : Lookup(r)
    \/ \E r \in Uploads : ServeFromCache(r)
    \/ \E r \in Uploads : Enqueue(r)
    \/ \E r \in Uploads : Analyze(r)
    \/ \E r \in Uploads : AnalyzeFails(r)
    \/ \E r \in Uploads : StoreAnalysis(r)
    \/ \E r \in Uploads : WriteRunExports(r)
    \/ \E r \in Uploads : StageFails(r)
    \/ \E r \in Uploads : Commit(r)
    \/ \E r \in Uploads : CommitFails(r)

SpecCache == InitCache /\ [][NextCache]_vars

----------------------------------------------------------------------------
(* Part VI: the scoring-model configuration during one analysis             *)
(*                                                                          *)
(* scoring_model_text is the content of the configuration file.  One        *)
(* synchronous upload reads it in get_scoring_model_info for the cache key, *)
(* reads it again in _load_scoring_model when the output is normalized, and *)
(* stores the result under the key; the file can be replaced at any time.   *)

\* hashlib.sha256(text).hexdigest(): collision-free on the texts of the model
Sha256OfText(text) == <<"sha256", text>>

\* get_scoring_model_info(): the hash of the text the file holds at the call
GetScoringModelInfo(text) == [sha256 |-> Sha256OfText(text)]

\* the model outputs of the analysis: one component with at most one deduction
RegistryOutputs ==
    { [findings |-> <<Component("1.1", ds)>>,
       score_total |-> PreScore.score_total,
       score_by_category |-> PreScore.score_by_category] :
      ds \in SeqsUpTo(DeductionPool, 1) }

InitRegistry ==
    /\ scoring_model_text \in ScoringModelTexts
    /\ analysis_output \in RegistryOutputs
    /\ input_output = analysis_output
    /\ category_totals = <<>>
    /\ has_deductions = FALSE
    /\ pc = "lookup"
    /\ scoring_model_info = <<>>
    /\ loaded_text = <<>>
    /\ DetectIdle
    /\ GroundIdle
    /\ FeedbackIdle
    /\ CacheIdle
    /\ ReportIdle
    /\ CreditIdle
    /\ WorkerIdle

\* the configuration file is replaced by another text
ReplaceConfiguration ==
    /\ \E text \in ScoringModelTexts \ {scoring_model_text} :
          scoring_model_text' = text
    /\ UNCHANGED <<analysis_output, input_output, category_totals, has_deductions,
                   pc, scoring_model_info, loaded_text>>
    /\ UNCHANGED <<detVars, groundVars, feedbackVars, cacheVars>>
    /\ UNCHANGED <<reportVars, creditVars, workerVars>>

\* upload_report, line 146: scoring_model_info = get_scoring_model_info()
ReadScoringModelInfo ==
    /\ pc = "lookup"
    /\ scoring_model_info' = GetScoringModelInfo(scoring_model_text)
    /\ pc' = "analyse"
    /\ UNCHANGED <<scoring_model_text, analysis_output, input_output,
                   category_totals, has_deductions, loaded_text>>
    /\ UNCHANGED <<detVars, groundVars, feedbackVars, cacheVars>>
    /\ UNCHANGED <<reportVars, creditVars, workerVars>>

\* analyze_report: _normalize_scoring_output calls _load_scoring_model, which
\* reads the file as it is now
NormalizeInAnalysis ==
    /\ pc = "analyse"
    /\ loaded_text' = scoring_model_text
    /\ LET r == NormalizeScoringOutput(analysis_output, scoring_model_text)
       IN /\ analysis_output' = r.output
          /\ category_totals' = r.category_totals
          /\ has_deductions' = r.has_deductions
    /\ pc' = "analysed"
    /\ UNCHANGED <<scoring_model_text, input_output, scoring_model_info>>
    /\ UNCHANGED <<detVars, groundVars, feedbackVars, cacheVars>>
    /\ UNCHANGED <<reportVars, creditVars, workerVars>>

\* upload_report, lines 365-373: the analysis is stored under
\* scoring_model_info.get("sha256")
StoreUnderKey ==
    /\ pc = "analysed"
    /\ pc' = "stored"
    /\ UNCHANGED <<scoring_model_text, analysis_output, input_output,
                   category_totals, has_deductions, scoring_model_info, loaded_text>>
    /\ UNCHANGED <<detVars, groundVars, feedbackVars, cacheVars>>
    /\ UNCHANGED <<reportVars, creditVars, workerVars>>

NextRegistry ==
    \/ ReplaceConfiguration
    \/ ReadScoringModelInfo
    \/ NormalizeInAnalysis
    \/ StoreUnderKey

SpecRegistry == InitRegistry /\ [][NextRegistry]_vars

----------------------------------------------------------------------------
(* Part VII: the status and the score of one report                         *)
(*                                                                          *)
(* upload_report creates the Report row with status "processing".  With     *)
(* queue processing enabled it stores the scores 0.0 and returns, and the   *)
(* queue worker analyses the document and calls update_report_analysis;     *)
(* otherwise upload_report analyses the document itself.  A nullable        *)
(* column is a set of at most one value.                                    *)

\* _ensure_required_arrays, for the keys the model follows
EnsureRequiredArrays(output) ==
    SetDefault(SetDefault(SetDefault(output, "score_total", 0),
                          "score_by_category", <<>>),
               "findings", <<>>)

\* build_analysis_result_from_output: overall_score
OverallScoreOf(output) ==
    IF "score_total" \in DOMAIN output THEN output.score_total ELSE 0

\* what the generative model returns for the report: one component with at
\* most one deduction, with a score of its own or without one
ReportOutputs ==
    RegistryOutputs
    \cup { [findings |-> <<Component("1.1", ds)>>] :
           ds \in SeqsUpTo(DeductionPool, 1) }

\* upload_report, lines 134-144: the row is created
InitReport ==
    /\ scoring_model_text \in ScoringModelTexts
    /\ analysis_output \in ReportOutputs
    /\ input_output = analysis_output
    /\ category_totals = <<>>
    /\ has_deductions = FALSE
    /\ pc = "created"
    /\ report = [status |-> "processing", overall_score |-> {}]
    /\ DetectIdle
    /\ GroundIdle
    /\ FeedbackIdle
    /\ CacheIdle
    /\ RegistryIdle
    /\ CreditIdle
    /\ WorkerIdle

\* upload_report, lines 299-336: the job is sent to the queue, the scores
\* are stored as 0.0 and the row is committed as it is
QueueReport ==
    /\ pc = "created"
    /\ report' = [report EXCEPT !.overall_score = {0}]
    /\ pc' = "queued"
    /\ UNCHANGED <<scoring_model_text, analysis_output, input_output,
                   category_totals, has_deductions>>
    /\ UNCHANGED <<detVars, groundVars, feedbackVars, cacheVars, registryVars>>
    /\ UNCHANGED <<creditVars, workerVars>>

\* upload_report, lines 342-363 with analyze_report: the output is completed
\* by _ensure_required_arrays, normalized, and its score stored
AnalyzeSynchronously ==
    /\ pc = "created"
    /\ LET r == NormalizeScoringOutput(EnsureRequiredArrays(analysis_output),
                                       scoring_model_text)
       IN /\ analysis_output' = r.output
          /\ category_totals' = r.category_totals
          /\ has_deductions' = r.has_deductions
          /\ report' = [status |-> "completed",
                        overall_score |-> {OverallScoreOf(r.output)}]
    /\ pc' = "completed"
    /\ UNCHANGED <<scoring_model_text, input_output>>
    /\ UNCHANGED <<detVars, groundVars, feedbackVars, cacheVars, registryVars>>
    /\ UNCHANGED <<creditVars, workerVars>>

\* upload_report, lines 484-493: the synchronous analysis raised
SynchronousAnalysisFails ==
    /\ pc = "created"
    /\ report' = [report EXCEPT !.status = "failed"]
    /\ pc' = "failed"
    /\ UNCHANGED <<scoring_model_text, analysis_output, input_output,
                   category_totals, has_deductions>>
    /\ UNCHANGED <<detVars, groundVars, feedbackVars, cacheVars, registryVars>>
    /\ UNCHANGED <<creditVars, workerVars>>

\* lambda_handler, lines 641-661: the worker completes and normalizes the
\* output and posts overall_score = score_total; update_report_analysis
\* normalizes the posted output again and stores the posted overall_score
WorkerAnalyses ==
    /\ pc = "queued"
    /\ LET r == NormalizeScoringOutput(EnsureRequiredArrays(analysis_output),
                                       scoring_model_text)
           overall_score == Get(r.output, "score_total", 0)
           ai_analysis_payload ==
               NormalizeScoringOutput(r.output, scoring_model_text).output
       IN /\ analysis_output' = ai_analysis_payload
          /\ category_totals' = r.category_totals
          /\ has_deductions' = r.has_deductions
          /\ report' = [status |-> "completed",
                        overall_score |-> {overall_score}]
    /\ pc' = "updated"
    /\ UNCHANGED <<scoring_model_text, input_output>>
    /\ UNCHANGED <<detVars, groundVars, feedbackVars, cacheVars, registryVars>>
    /\ UNCHANGED <<creditVars, workerVars>>

\* lambda_handler, lines 663-673: any failure of the worker is logged and the
\* record is left behind; the row is not touched
WorkerFails ==
    /\ pc = "queued"
    /\ pc' = "dropped"
    /\ UNCHANGED <<scoring_model_text, analysis_output, input_output,
                   category_totals, has_deductions, report>>
    /\ UNCHANGED <<detVars, groundVars, feedbackVars, cacheVars, registryVars>>
    /\ UNCHANGED <<creditVars, workerVars>>

NextReport ==
    \/ QueueReport
    \/ AnalyzeSynchronously
    \/ SynchronousAnalysisFails
    \/ WorkerAnalyses
    \/ WorkerFails

SpecReport == InitReport /\ [][NextReport]_vars

----------------------------------------------------------------------------
(* Part VIII: the credits of one user                                       *)
(*                                                                          *)
(* credits is the committed value of users.credits.  Every request works on *)
(* the User object of its own session: it loads the committed value, does   *)
(* its arithmetic on the attribute, and its UPDATE writes the attribute's   *)
(* value.  An UPDATE that is not yet committed holds the row, and another   *)
(* request's UPDATE waits for it.                                           *)

\* number of requests that touch the user's credits concurrently
MaxRequests == 2

Requests == 1..MaxRequests

\* upload_report, line 111: credits_required = 2 if is_recheck else 10
CreditsRequired(is_recheck) == IF is_recheck THEN 2 ELSE 10

\* the requests: a first analysis, a re-check, an admin adjustment
RequestPool ==
    { [kind |-> "upload", amount |-> CreditsRequired(b)] : b \in BOOLEAN }
    \cup { [kind |-> "admin", amount |-> a] : a \in {0 - 10, 0 - 2, 10} }

\* the balances the user can start with
BalancePool == {0, 2, 10, 12}

InitCredits ==
    /\ credits \in BalancePool
    /\ request \in [Requests -> RequestPool]
    /\ cpc = [r \in Requests |-> "start"]
    /\ user_credits = [r \in Requests |-> 0]
    /\ row_lock = 0
    /\ scoring_model_text = <<>> /\ analysis_output = <<>>
    /\ input_output = <<>> /\ category_totals = <<>>
    /\ has_deductions = FALSE /\ pc = "idle"
    /\ DetectIdle
    /\ GroundIdle
    /\ FeedbackIdle
    /\ CacheIdle
    /\ RegistryIdle
    /\ ReportIdle
    /\ WorkerIdle

\* upload_report, line 114: db.refresh(current_user)
RefreshUser(r) ==
    /\ request[r].kind = "upload"
    /\ cpc[r] = "start"
    /\ user_credits' = [user_credits EXCEPT ![r] = credits]
    /\ cpc' = [cpc EXCEPT ![r] = "loaded"]
    /\ UNCHANGED <<credits, request, row_lock>>
    /\ UNCHANGED <<pipelineVars, cacheVars, reportVars, workerVars>>

\* upload_report, lines 115-122: the check and the deduction
DeductCredits(r) ==
    /\ request[r].kind = "upload"
    /\ cpc[r] = "loaded"
    /\ IF user_credits[r] < request[r].amount
       THEN /\ cpc' = [cpc EXCEPT ![r] = "rejected"]
            /\ UNCHANGED user_credits
       ELSE /\ user_credits' =
                [user_credits EXCEPT ![r] = user_credits[r] - request[r].amount]
            /\ cpc' = [cpc EXCEPT ![r] = "deducted"]
    /\ UNCHANGED <<credits, request, row_lock>>
    /\ UNCHANGED <<pipelineVars, cacheVars, reportVars, workerVars>>

\* upload_report, line 144: db.flush() sends the UPDATE of users.credits
FlushDeduction(r) ==
    /\ cpc[r] = "deducted"
    /\ row_lock = 0
    /\ row_lock' = r
    /\ cpc' = [cpc EXCEPT ![r] = "flushed"]
    /\ UNCHANGED <<credits, request, user_credits>>
    /\ UNCHANGED <<pipelineVars, cacheVars, reportVars, workerVars>>

\* upload_report, lines 388-392: the automatic refund of a high score
RefundCredits(r) ==
    /\ cpc[r] = "flushed"
    /\ user_credits' =
           [user_credits EXCEPT ![r] = user_credits[r] + request[r].amount]
    /\ cpc' = [cpc EXCEPT ![r] = "refunded"]
    /\ UNCHANGED <<credits, request, row_lock>>
    /\ UNCHANGED <<pipelineVars, cacheVars, reportVars, workerVars>>

\* the mutant of CommitUpload: the UPDATE subtracts from the column
CommitUpload_Relative(r) ==
    /\ cpc[r] \in {"flushed", "refunded"}
    /\ credits' = IF cpc[r] = "flushed" THEN credits - request[r].amount
                  ELSE credits
    /\ row_lock' = 0
    /\ cpc' = [cpc EXCEPT ![r] = "done"]
    /\ UNCHANGED <<request, user_credits>>
    /\ UNCHANGED <<pipelineVars, cacheVars, reportVars, workerVars>>

\* upload_report, line 430: db.commit() publishes the attribute's value
CommitUpload(r) ==
    /\ cpc[r] \in {"flushed", "refunded"}
    /\ credits' = user_credits[r]
    /\ row_lock' = 0
    /\ cpc' = [cpc EXCEPT ![r] = "done"]
    /\ UNCHANGED <<request, user_credits>>
    /\ UNCHANGED <<pipelineVars, cacheVars, reportVars, workerVars>>

\* upload_report, lines 476-493: db.rollback() withdraws the UPDATE
RollbackUpload(r) ==
    /\ cpc[r] \in {"flushed", "refunded"}
    /\ row_lock' = 0
    /\ cpc' = [cpc EXCEPT ![r] = "failed"]
    /\ UNCHANGED <<credits, request, user_credits>>
    /\ UNCHANGED <<pipelineVars, cacheVars, reportVars, workerVars>>

\* manage_user_credits, line 547: user = db.query(User)...first()
LoadUser(r) ==
    /\ request[r].kind = "admin"
    /\ cpc[r] = "start"
    /\ user_credits' = [user_credits EXCEPT ![r] = credits]
    /\ cpc' = [cpc EXCEPT ![r] = "loaded"]
    /\ UNCHANGED <<credits, request, row_lock>>
    /\ UNCHANGED <<pipelineVars, cacheVars, reportVars, workerVars>>

\* manage_user_credits, lines 551-559: new_balance and its check
AdjustCredits(r) ==
    /\ request[r].kind = "admin"
    /\ cpc[r] = "loaded"
    /\ LET new_balance == user_credits[r] + request[r].amount
       IN IF new_balance < 0
          THEN /\ cpc' = [cpc EXCEPT ![r] = "rejected"]
               /\ UNCHANGED user_credits
          ELSE /\ user_credits' = [user_credits EXCEPT ![r] = new_balance]
               /\ cpc' = [cpc EXCEPT ![r] = "adjusted"]
    /\ UNCHANGED <<credits, request, row_lock>>
    /\ UNCHANGED <<pipelineVars, cacheVars, reportVars, workerVars>>

\* manage_user_credits, line 569: db.commit() sends the UPDATE and commits
CommitAdjustment(r) ==
    /\ cpc[r] = "adjusted"
    /\ row_lock = 0
    /\ credits' = user_credits[r]
    /\ cpc' = [cpc EXCEPT ![r] = "done"]
    /\ UNCHANGED <<request, user_credits, row_lock>>
    /\ UNCHANGED <<pipelineVars, cacheVars, reportVars, workerVars>>

NextCredits ==
    \/ \E r \in Requests : RefreshUser(r)
    \/ \E r \in Requests : DeductCredits(r)
    \/ \E r \in Requests : FlushDeduction(r)
    \/ \E r \in Requests : RefundCredits(r)
    \/ \E r \in Requests : CommitUpload(r)
    \/ \E r \in Requests : RollbackUpload(r)
    \/ \E r \in Requests : LoadUser(r)
    \/ \E r \in Requests : AdjustCredits(r)
    \/ \E r \in Requests : CommitAdjustment(r)

SpecCredits == InitCredits /\ [][NextCredits]_vars

----------------------------------------------------------------------------
(* Properties of score normalization                                        *)

ScoringModel == LoadScoringModel(scoring_model_text)
KnownCategories ==
    {ScoringModel.category_order[i] : i \in 1..Len(ScoringModel.category_order)}

\* the deductions of a findings list in encounter order, each with the index
\* and id of its component
FlatDeductions(findings) ==
    Flatten([j \in 1..Len(findings) |->
                [i \in 1..Len(findings[j].deductions) |->
                    [comp |-> j,
                     component_id |-> findings[j].component_id,
                     d |-> findings[j].deductions[i]]]])

InFlat == FlatDeductions(input_output.findings)
OutFlat == FlatDeductions(analysis_output.findings)

\* a deduction without the category the normalizer may have filled in
Bare(e) == [comp |-> e.comp, rule_id |-> e.d.rule_id,
            points |-> e.d.points, evidence |-> e.d.evidence]

Normalized == pc = "normalized"
SomeResolved == \E k \in 1..Len(OutFlat) : OutFlat[k].d.category_id # ""

\* sum of the points of the surviving deductions of category c
SurvivingSum(c) ==
    SumSeq([k \in 1..Len(OutFlat) |->
               IF OutFlat[k].d.category_id = c
               THEN (IF OutFlat[k].d.points.is_int THEN OutFlat[k].d.points.v ELSE 0)
               ELSE 0])

CappedSum(c) ==
    IF c \in DOMAIN ScoringModel.category_caps
    THEN Min(SurvivingSum(c), ScoringModel.category_caps[c])
    ELSE SurvivingSum(c)

SurvivingCategories ==
    {OutFlat[k].d.category_id : k \in 1..Len(OutFlat)} \ {""}

RECURSIVE SumCapped(_)
SumCapped(S) ==
    IF S = {} THEN 0
    ELSE LET c == CHOOSE x \in S : TRUE IN CappedSum(c) + SumCapped(S \ {c})

Clamp(x, lo, hi) == IF x < lo THEN lo ELSE IF x > hi THEN hi ELSE x

PerReport ==
    LowerLevel(ScoringModel.aggregate_level) \in {"report", "global", "document", "rule"}

\* the entries of a flat list whose rule id is empty or occurs there first
FirstByRule(flat) ==
    LET Keep(k) == \/ flat[k].d.rule_id = <<>>
                   \/ \A j \in 1..(k - 1) : flat[j].d.rule_id # flat[k].d.rule_id
        RECURSIVE Pick(_)
        Pick(k) == IF k > Len(flat) THEN <<>>
                   ELSE IF Keep(k) THEN <<flat[k]>> \o Pick(k + 1)
                   ELSE Pick(k + 1)
    IN Pick(1)

\* C2: at per-report level only the first deduction of every rule id, in
\* encounter order over all components, survives and is summed: B_203 with
\* 10 then 15 adds exactly 10 to its category.
Thm_C2_FirstPerRule ==
    (Normalized /\ PerReport) =>
        /\ [k \in 1..Len(OutFlat) |-> Bare(OutFlat[k])]
             = [k \in 1..Len(FirstByRule(InFlat)) |-> Bare(FirstByRule(InFlat)[k])]
        /\ \A c \in DOMAIN category_totals : category_totals[c] = SurvivingSum(c)

Wit_C2_FirstPerRule ==
    /\ Normalized /\ PerReport
    /\ Len(InFlat) = 2
    /\ InFlat[1].d.rule_id = R_B_203 /\ InFlat[1].d.points = IntPoints(10)
    /\ InFlat[2].d.rule_id = R_B_203 /\ InFlat[2].d.points = IntPoints(15)
    /\ InFlat[1].comp # InFlat[2].comp
    /\ category_totals["B"] = 10

\* the dedup key as the specification words it
StatedKey(e) ==
    IF PerReport \/ ~ScoringModel.deduct_per_occurrence
    THEN <<e.d.rule_id>>
    ELSE IF LowerLevel(ScoringModel.aggregate_level) \in {"issue", "evidence"}
    THEN <<e.d.rule_id,
           IF HashEvidenceSpan(e.d.evidence) # ""
           THEN HashEvidenceSpan(e.d.evidence) ELSE e.component_id>>
    ELSE <<e.component_id, e.d.rule_id>>

\* C3 as stated: no two surviving deductions share a dedup key, whatever the
\* input, deductions with an empty rule_id included.
Orig_C3_NoSharedKey ==
    Normalized =>
        \A k, l \in 1..Len(OutFlat) :
            k # l => StatedKey(OutFlat[k]) # StatedKey(OutFlat[l])

\* C3 as amended: no two surviving deductions with a non-empty rule_id share
\* a dedup key.
Thm_C3_NoSharedKeyWithRule ==
    Normalized =>
        \A k, l \in 1..Len(OutFlat) :
            (k # l /\ OutFlat[k].d.rule_id # <<>> /\ OutFlat[l].d.rule_id # <<>>)
                => StatedKey(OutFlat[k]) # StatedKey(OutFlat[l])

\* a duplicate was dropped at component level and at evidence level
Wit_C3_NoSharedKeyWithRule ==
    /\ Normalized
    /\ ~PerReport /\ ScoringModel.deduct_per_occurrence
    /\ Len(InFlat) = 2 /\ Len(OutFlat) = 1
    /\ InFlat[1].d.rule_id # <<>>
    /\ InFlat[1].comp # InFlat[2].comp

\* C4 as stated: a negative or non-numeric points value adds zero, so no
\* category sum and no reported category deduction is negative.
Orig_C4_NoNegativeSum ==
    Normalized =>
        /\ \A c \in DOMAIN category_totals : category_totals[c] >= 0
        /\ SomeResolved =>
             \A i \in 1..Len(analysis_output.score_by_category) :
                analysis_output.score_by_category[i].deduction >= 0

\* C5 as stated: every surviving category_id is a known category or empty,
\* and only known categories take part in the totals.
Orig_C5_KnownCategoryOrEmpty ==
    Normalized =>
        /\ \A k \in 1..Len(OutFlat) :
              OutFlat[k].d.category_id \in KnownCategories \cup {""}
        /\ DOMAIN category_totals \subseteq KnownCategories

\* the category the specification infers from a rule id: the token before
\* the first "_" or ".", when it is (in either letter case) a category of
\* the loaded scoring model
StatedInfer(rule_id) ==
    LET seps == {i \in 1..Len(rule_id) : rule_id[i] \in {"_", "."}}
    IN IF seps = {} THEN ""
       ELSE LET cut == CHOOSE i \in seps : \A j \in seps : i <= j
                token == SubSeq(rule_id, 1, cut - 1)
            IN IF Len(token) = 1 /\ UpperChar(token[1]) \in KnownCategories
               THEN UpperChar(token[1]) ELSE ""

\* C6 as stated: a deduction without a category_id gets the category of its
\* rule id's prefix token, so B_203 and B.203 both resolve to B.
Orig_C6_PrefixToken ==
    Normalized =>
        \A k \in 1..Len(OutFlat) :
            (\A j \in 1..Len(InFlat) :
                InFlat[j].d.rule_id = OutFlat[k].d.rule_id => InFlat[j].d.category_id = "")
            => OutFlat[k].d.category_id = StatedInfer(OutFlat[k].d.rule_id)

Resolves(d) == d.category_id # "" \/ InferCategoryFromRuleId(d.rule_id) # ""

Thm_C27_NormalizeIdempotent ==
    [][pc = "normalized" =>
          /\ analysis_output'.findings = analysis_output.findings
          /\ analysis_output'.score_by_category = analysis_output.score_by_category
          /\ analysis_output'.score_total = analysis_output.score_total]_vars

\* a second call was made on an output from which the first call dropped a
\* duplicate and for which it computed score and breakdown
Wit_C27_NormalizeIdempotent ==
    /\ pc = "renormalized"
    /\ has_deductions
    /\ Len(InFlat) = 2 /\ Len(OutFlat) = 1
    /\ analysis_output.score_total # input_output.score_total

\* sum of the deduction fields of the reported breakdown
BreakdownSum ==
    SumSeq([i \in 1..Len(analysis_output.score_by_category) |->
               analysis_output.score_by_category[i].deduction])

\* C28: after a normalization in which a deduction resolved to a category,
\* score_total = clamp(score_start - sum of the deduction fields of all
\* score_by_category entries, score_floor, score_ceiling): every deduction
\* that lowers the score is visible in score_by_category.
Orig_C28_TotalMatchesBreakdown ==
    (Normalized /\ has_deductions) =>
        analysis_output.score_total =
            Clamp(ScoringModel.score_start - BreakdownSum,
                  ScoringModel.score_floor, ScoringModel.score_ceiling)

\* C23: a scoring-model configuration that cannot be parsed is a hard failure:
\* the load does not return the default categories and start, floor and
\* ceiling values in its place, so no normalization completes against the
\* defaults of a configuration that did not parse.
Orig_C23_UnparsableIsHardFailure ==
    (pc # "input" /\ ScoringModel.category_order = DefaultCategoryOrder) =>
        scoring_model_text.parse_ok

----------------------------------------------------------------------------
(* Properties of point detection                                            *)

Detected == dpc = "detected"
DocLines == LineIndex(SplitPages(report_text))
DocHeadings == HeadingIndexes(DocLines, 1)
\* the text of the span of the i-th detected point
PointSpan(i) == SpanText(SpanLines(DocLines, DocHeadings, i))

\* a heading as the specification words it: a label of 1 to 5 dot-separated
\* integers, alone on the line or followed by white space and a title
StatedHeading(line) ==
    LET a == SkipWhile(line, 1, Whitespace)
        b == SkipWhile(line, a, Digits)
        g == DottedGroups(line, b, 0)
    IN /\ b > a
       /\ g.pos > Len(line) \/ line[g.pos] \in Whitespace

StatedHeadingLines == SelectSeq(DocLines, LAMBDA l : StatedHeading(l.text))

\* C8 as stated: the detected points are exactly the lines carrying a label
\* of 1 to 5 dot-separated integers with or without a title, so "1 Tak" and a
\* bare "2.3" each give a point.
Orig_C8_HeadingLevels ==
    Detected =>
        /\ Len(detected) = Len(StatedHeadingLines)
        /\ \A i \in 1..Len(detected) :
              i <= Len(StatedHeadingLines)
                 => detected[i].anchor_text = StatedHeadingLines[i].text

GradeTokens == { <<"T", "G", "0">>, <<"T", "G", "1">>, <<"T", "G", "2">>, <<"T", "G", "3">>, <<"T", "G", "I", "U">> }

\* token t stands at position i of s as a whole word; with ci, letter case
\* is ignored
TokenAt(s, i, t, ci) ==
    /\ i + Len(t) - 1 <= Len(s)
    /\ \A k \in 1..Len(t) :
          IF ci THEN UpperChar(s[i + k - 1]) = t[k] ELSE s[i + k - 1] = t[k]
    /\ i = 1 \/ s[i - 1] \notin WordChars
    /\ i + Len(t) > Len(s) \/ s[i + Len(t)] \notin WordChars

\* the first grade token of s as it stands in s, <<>> when there is none
FirstGradeToken(s, ci) ==
    LET at == {i \in 1..Len(s) : \E t \in GradeTokens : TokenAt(s, i, t, ci)}
    IN IF at = {} THEN <<>>
       ELSE LET i == CHOOSE j \in at : \A k \in at : j <= k
                t == CHOOSE u \in GradeTokens : TokenAt(s, i, u, ci)
            IN SubSeq(s, i, i + Len(t) - 1)

\* C9 as stated: the condition code is the first grade token of the span,
\* letter case ignored, and is absent only when the span has no grade token
\* in any case.
Orig_C9_FirstTokenAnyCase ==
    Detected =>
        \A i \in 1..Len(detected) : detected[i].tg = FirstGradeToken(PointSpan(i), TRUE)

\* C9 as amended: the condition code is the first upper-case grade token
\* standing as a whole word in the span, and is absent exactly when the span
\* has no such upper-case token.
Thm_C9_FirstTokenUpperCase ==
    Detected =>
        \A i \in 1..Len(detected) : detected[i].tg = FirstGradeToken(PointSpan(i), FALSE)

\* a span whose first token in any case is lower-case "tg2" and whose code is
\* the later "TG3"
Wit_C9_FirstTokenUpperCase ==
    /\ Detected
    /\ \E i \in 1..Len(detected) :
          /\ detected[i].tg = <<"T", "G", "3">>
          /\ FirstGradeToken(PointSpan(i), TRUE) = <<"t", "g", "2">>

\* C10 as stated: every point has page_start <= page_end and order_in_doc
\* runs 1, 2, ..., N, whatever the page markers are.
Orig_C10_PageRangeAndOrder ==
    Detected =>
        \A i \in 1..Len(detected) :
            /\ detected[i].page_start <= detected[i].page_end
            /\ detected[i].order_in_doc = i

----------------------------------------------------------------------------
(* Claims about evidence grounding (SpecGround)                             *)

Grounded == epc \in {"grounded", "regrounded"}

\* the issues of an output, in document order
AllIssues(output) ==
    Flatten([j \in 1..Len(output.findings) |-> output.findings[j].issues])

\* the evidence lists of the issues and of the score drivers of an output
EvidenceRecords(output) ==
    [issues |-> [i \in 1..Len(AllIssues(output)) |->
                    Get(AllIssues(output)[i], "evidence", <<>>)],
     drivers |-> [k \in 1..Len(output.top_score_drivers) |->
                    Get(output.top_score_drivers[k], "evidence", <<>>)]]

WellFormed(item) ==
    /\ "snippet" \in DOMAIN item /\ item.snippet # <<>>
    /\ "page" \in DOMAIN item /\ item.page >= 1

\* C11: after ensure_analysis_evidence every issue of every component has at
\* least one evidence item, and every evidence item has a non-empty snippet
\* and page >= 1, whatever the report text (no page markers, empty first
\* page included).
Orig_C11_EvidenceComplete ==
    Grounded =>
        \A i \in 1..Len(AllIssues(analysis_output)) :
            LET evidence == EvidenceRecords(analysis_output).issues[i]
            IN /\ Len(evidence) >= 1
               /\ \A k \in 1..Len(evidence) : WellFormed(evidence[k])

\* C12: a second ensure_analysis_evidence with the same report text changes
\* no evidence record of an issue or of a score driver.
Thm_C12_Idempotent ==
    [][epc = "grounded" =>
          EvidenceRecords(analysis_output)' = EvidenceRecords(analysis_output)]_vars

\* the second call has run on an output whose first grounding replaced issue
\* evidence, kept issue evidence and gave a driver evidence
Wit_C12_Idempotent ==
    /\ epc = "regrounded"
    /\ \E i \in 1..Len(AllIssues(input_output)) :
          /\ "evidence" \in DOMAIN AllIssues(input_output)[i]
          /\ NormalizeEvidenceItems(AllIssues(input_output)[i].evidence) = <<>>
    /\ \E i \in 1..Len(AllIssues(input_output)) :
          /\ "evidence" \in DOMAIN AllIssues(input_output)[i]
          /\ NormalizeEvidenceItems(AllIssues(input_output)[i].evidence) # <<>>
    /\ \E k \in 1..Len(input_output.top_score_drivers) :
          /\ "evidence" \notin DOMAIN input_output.top_score_drivers[k]
          /\ analysis_output.top_score_drivers[k].evidence # <<PlaceholderEvidence>>
    /\ SplitPages(report_text) # <<>>

\* the issues as _ensure_driver_evidence finds them
IssuesSeen == AllIssues(EnsureIssueEvidence(input_output, report_text))

\* item is an evidence item of one of the issues, as it stands or with its
\* field defaults filled in
TakenFrom(item, issues) ==
    \E i \in 1..Len(issues) : \E k \in 1..Len(issues[i].evidence) :
        item = issues[i].evidence[k] \/ item = NormalizeCandidate(issues[i].evidence[k])

HasValidEvidence(driver) ==
    /\ "evidence" \in DOMAIN driver
    /\ \E k \in 1..Len(driver.evidence) :
          WellFormed(NormalizeCandidate(driver.evidence[k]))

\* C13: after _ensure_driver_evidence every score driver has a non-empty
\* evidence list; a driver without valid evidence of its own takes the
\* evidence of an issue citing one of its rule ids, else any issue evidence of
\* the document, and the placeholder with empty snippet only if there is no
\* issue evidence at all.
Orig_C13_DriverEvidenceOrder ==
    Grounded =>
        \A k \in 1..Len(analysis_output.top_score_drivers) :
            LET before == input_output.top_score_drivers[k]
                evidence == analysis_output.top_score_drivers[k].evidence
                with_evidence == SelectSeq(IssuesSeen, LAMBDA i : i.evidence # <<>>)
                citing == SelectSeq(with_evidence,
                             LAMBDA i : \E r \in 1..Len(i.rule_refs) :
                                \E q \in 1..Len(before.rule_refs) :
                                    i.rule_refs[r] = before.rule_refs[q])
            IN /\ Len(evidence) >= 1
               /\ ~HasValidEvidence(before) =>
                     IF citing # <<>>
                     THEN \A e \in 1..Len(evidence) : TakenFrom(evidence[e], citing)
                     ELSE IF with_evidence # <<>>
                     THEN \A e \in 1..Len(evidence) : TakenFrom(evidence[e], with_evidence)
                     ELSE evidence = <<PlaceholderEvidence>>

----------------------------------------------------------------------------
(* Claims about ordering and feedback assembly (SpecFeedback)               *)

Built == fpc = "built"

Overview == feedback.points_overview

\* the integer segments of a dotted id
Segments(id) ==
    LET parts == SplitDots(id) IN [i \in 1..Len(parts) |-> ParseInt(parts[i])]

\* a comes strictly before b: at the first segment where they differ a has
\* the smaller one, or a has none
Before(a, b) ==
    LET sa == Segments(a)
        sb == Segments(b)
    IN \E i \in 1..Len(sb) :
          /\ \A k \in 1..(i - 1) : k <= Len(sa) /\ sa[k] = sb[k]
          /\ i > Len(sa) \/ sa[i] < sb[i]

\* a is a parent of b: the segments of a are a proper prefix of those of b
Parent(a, b) ==
    /\ Len(Segments(a)) < Len(Segments(b))
    /\ SubSeq(Segments(b), 1, Len(Segments(a))) = Segments(a)

\* C14: in NUMERIC mode the points are ordered by component-wise integer
\* comparison of their dotted ids: '2.10' after '2.9', every parent before
\* each of its descendants, a missing segment lower than any present one.
Thm_C14_NumericOrder ==
    (Built /\ sorted_points.mode = "NUMERIC") =>
        LET sp == sorted_points.sorted_points
            id(i) == GetOr(sp[i], "numeric_id")
        IN \A i \in 1..Len(sp) : \A j \in 1..Len(sp) :
              (id(i) # <<>> /\ id(j) # <<>>) =>
                 /\ Before(id(i), id(j)) => i < j
                 /\ Parent(id(i), id(j)) => i < j
                 /\ (Segments(id(i)) = <<2, 9>> /\ Segments(id(j)) = <<2, 10>>) => i < j

\* NUMERIC mode has put '2' before '2.9' before '2.10', detected in the
\* opposite order
Wit_C14_NumericOrder ==
    /\ Built
    /\ sorted_points.mode = "NUMERIC"
    /\ Len(detected_points) = 3
    /\ [i \in 1..3 |-> Segments(detected_points[i].point_id)] = << <<2, 10>>, <<2, 9>>, <<2>> >>
    /\ [i \in 1..3 |-> Segments(Overview[i].point_id)] = << <<2>>, <<2, 9>>, <<2, 10>> >>

\* the point carries a valid numeric id
CarriesNumericId(point) ==
    "numeric_id" \in DOMAIN point /\ IsNumericPointId(point.numeric_id)

NumericCount == Cardinality({i \in 1..Len(detected_points) :
                                CarriesNumericId(detected_points[i])})

Nondecreasing(seq, key) ==
    \A i \in 1..(Len(seq) - 1) : GetOr(seq[i], key) <= GetOr(seq[i + 1], key)

\* C15: the mode is NUMERIC iff the point list is non-empty and at least 0.7
\* of the points carry a valid numeric id (7 of 10 included); otherwise it is
\* DOCUMENT_ORDER and the points are ordered by order_in_doc, or by
\* page_start when that field is absent.
Thm_C15_SortMode ==
    Built =>
        /\ sorted_points.mode = "NUMERIC" <=>
              (detected_points # <<>> /\ 10 * NumericCount >= 7 * Len(detected_points))
        /\ sorted_points.mode # "NUMERIC" =>
              /\ sorted_points.mode = "DOCUMENT_ORDER"
              /\ LET sp == sorted_points.sorted_points
                 IN IF \A i \in 1..Len(sp) : "order_in_doc" \in DOMAIN sp[i]
                    THEN Nondecreasing(sp, "order_in_doc")
                    ELSE Nondecreasing(sp, "page_start")

\* exactly 7 of 10 points carry a numeric id and the mode is NUMERIC
Wit_C15_SortMode ==
    /\ Built
    /\ Len(detected_points) = 10
    /\ NumericCount = 7
    /\ sorted_points.mode = "NUMERIC"

\* the dedup key of the chosen mode: the numeric id in NUMERIC mode (the
\* point key for a point that has none), the point key in DOCUMENT_ORDER mode
ModeKey(point) ==
    IF sorted_points.mode = "NUMERIC" /\ CarriesNumericId(point)
    THEN point.numeric_id
    ELSE GetOr(point, "point_key")

\* the detected points filed under the key, in detection order
Occurrences(key) == SelectSeq(detected_points, LAMBDA p : ModeKey(p) = key)

\* kept is the first occurrence, completed from later ones only where its
\* own value is missing
KeptFirst(kept, occ) ==
    /\ \A k \in (DOMAIN occ[1] \cup DOMAIN kept) \
                    {MergedKeys[m] : m \in 1..Len(MergedKeys)} :
          k \in DOMAIN occ[1] /\ k \in DOMAIN kept /\ kept[k] = occ[1][k]
    /\ \A m \in 1..Len(MergedKeys) :
          LET k == MergedKeys[m]
          IN IF ~NotGet(occ[1], k) THEN GetOr(kept, k) = occ[1][k]
             ELSE IF \E o \in 2..Len(occ) : ~NotGet(occ[o], k)
             THEN \E o \in 2..Len(occ) : ~NotGet(occ[o], k) /\ GetOr(kept, k) = occ[o][k]
             ELSE NotGet(kept, k)

\* C16: no two entries of the points overview share the dedup key of the
\* chosen mode (numeric_id in NUMERIC mode, point_key in DOCUMENT_ORDER
\* mode); of several occurrences of a key the first in detection order is
\* kept, taking condition code, anchor text, excerpt and page fields from a
\* later occurrence only where its own value is missing.
Thm_C16_FirstOccurrenceKept ==
    Built =>
        LET sp == sorted_points.sorted_points
        IN /\ \A i \in 1..Len(Overview) : \A j \in 1..Len(Overview) :
                 i # j =>
                    IF sorted_points.mode = "NUMERIC"
                    THEN Overview[i].numeric_id = <<>>
                         \/ Overview[i].numeric_id # Overview[j].numeric_id
                    ELSE Overview[i].point_key # Overview[j].point_key
           /\ \A i \in 1..Len(sp) : \A j \in 1..Len(sp) :
                 i # j => ModeKey(sp[i]) # ModeKey(sp[j])
           /\ \A d \in 1..Len(detected_points) :
                 \E i \in 1..Len(sp) : ModeKey(sp[i]) = ModeKey(detected_points[d])
           /\ \A i \in 1..Len(sp) :
                 /\ Occurrences(ModeKey(sp[i])) # <<>>
                 /\ KeptFirst(sp[i], Occurrences(ModeKey(sp[i])))

\* a key detected twice: the first occurrence has no condition code and no
\* page, the second has both, and the kept point carries the title of the
\* first with the condition code and page of the second
Wit_C16_FirstOccurrenceKept ==
    /\ Built
    /\ \E i \in 1..Len(sorted_points.sorted_points) :
          LET kept == sorted_points.sorted_points[i]
              occ == Occurrences(ModeKey(kept))
          IN /\ Len(occ) >= 2
             /\ NotGet(occ[1], "tg") /\ NotGet(occ[1], "page_start")
             /\ ~NotGet(occ[2], "tg") /\ ~NotGet(occ[2], "page_start")
             /\ occ[1].point_key # occ[2].point_key
             /\ kept.point_key = occ[1].point_key
             /\ kept.tg = occ[2].tg /\ kept.page_start = occ[2].page_start
             /\ \E e \in 1..Len(Overview) :
                   /\ Overview[e].point_key = kept.point_key
                   /\ Overview[e].tg = occ[2].tg

\* the status and deduction total the claim derives from one component
StatedStatus(component) ==
    LET total == SumSeq([d \in 1..Len(component.deductions) |->
                            component.deductions[d].points])
    IN [deduction_total |-> Max(total, 0),
        status |-> IF total > 0 THEN "deduction"
                   ELSE IF component.issues # <<>> THEN "improve"
                   ELSE "ok"]

\* C17: every entry of points_overview has status 'deduction' iff the point's
\* capped deduction total is > 0, otherwise 'improve' iff the point has an
\* issue, otherwise 'ok', the total and the issues being those of one and the
\* same component also when several components carry the component_id; and
\* display_index runs 1..N without gaps in final sort order.
Orig_C17_StatusOfSameComponent ==
    Built =>
        \A e \in 1..Len(Overview) :
            LET entry == Overview[e]
                same_id == SelectSeq(analysis_output.findings,
                                     LAMBDA c : c.component_id = entry.point_id)
            IN /\ entry.display_index = e
               /\ IF same_id = <<>>
                  THEN entry.status = "ok" /\ entry.deduction_total = 0
                  ELSE \E c \in 1..Len(same_id) :
                          /\ entry.status = StatedStatus(same_id[c]).status
                          /\ entry.deduction_total = StatedStatus(same_id[c]).deduction_total

----------------------------------------------------------------------------
(* Claims about the analysis cache (SpecCache)                              *)

\* the values a caller can pass for each component of the triple
HashArguments == {"h1", "h2", Absent}
ModelArguments == {"m1", "m2", Absent}
PipelineArguments == {"p1", "p2", Absent}

\* the rows stored under exactly the triple (h, m, p)
StoredUnder(h, m, p) ==
    {row \in cache_table : /\ row.document_hash = h
                           /\ row.scoring_model_sha = m
                           /\ row.pipeline_git_sha = p}

\* the three payloads of a row
RowPayloads(row) ==
    [detected_points |-> row.detected_points,
     scoring_result |-> row.scoring_result,
     ai_analysis |-> row.ai_analysis]

\* some upload keyed on the row's triple completed with the row's payloads
WrittenByAnUpload(row) ==
    \E q \in Uploads : /\ response[q] = "completed"
                       /\ upload[q].document_hash = row.document_hash
                       /\ upload[q].scoring_model_sha = row.scoring_model_sha
                       /\ upload[q].pipeline_git_sha = row.pipeline_git_sha
                       /\ analysis[q] = {RowPayloads(row)}

\* C18: after upsert_analysis_cache for a triple, get_cached_analysis with the
\* same triple returns exactly the payloads written; with any one of the three
\* components different from the stored one, an empty or absent value
\* included, it returns no entry, never an entry stored under another triple.
Orig_C18_CacheRoundTrip ==
    \A h \in HashArguments : \A m \in ModelArguments : \A p \in PipelineArguments :
        LET got == GetCachedAnalysis(cache_table, h, m, p)
        IN IF StoredUnder(h, m, p) # {}
           THEN got = StoredUnder(h, m, p) /\ \A row \in got : WrittenByAnUpload(row)
           ELSE got = {}

\* the rows that agree with every component the caller gave
Candidates(h, m, p) ==
    {row \in cache_table : /\ row.document_hash = h
                           /\ m = Absent \/ row.scoring_model_sha = m
                           /\ p = Absent \/ row.pipeline_git_sha = p}

\* what the lookup does guarantee: with all three components given,
\* get_cached_analysis returns the one entry stored under exactly that triple,
\* holding the payloads last written for it, and no entry when none is stored
\* under it; an empty or absent document_hash returns no entry; an empty or
\* absent scoring_model_sha or pipeline_git_sha is not compared, so the call
\* returns an entry of the document that agrees on the components given.
LookupAgreesOnGivenComponents ==
    \A h \in HashArguments : \A m \in ModelArguments : \A p \in PipelineArguments :
        LET got == GetCachedAnalysis(cache_table, h, m, p)
        IN /\ h = Absent => got = {}
           /\ h # Absent /\ Candidates(h, m, p) = {} => got = {}
           /\ h # Absent /\ Candidates(h, m, p) # {} =>
                 \E row \in Candidates(h, m, p) :
                    got = {row} /\ WrittenByAnUpload(row)
           /\ h # Absent /\ m # Absent /\ p # Absent =>
                 got = StoredUnder(h, m, p) /\ Cardinality(got) <= 1

\* entries are stored under two triples of one document: a read with the
\* triple of one returns it, a read with the other's model hash does not, and
\* a read without a model hash returns one of the two
LookupOverTwoTriples ==
    \E row \in cache_table : \E other \in cache_table :
        /\ other.document_hash = row.document_hash
        /\ other.scoring_model_sha # row.scoring_model_sha
        /\ other.pipeline_git_sha = row.pipeline_git_sha
        /\ GetCachedAnalysis(cache_table, row.document_hash, row.scoring_model_sha,
                             row.pipeline_git_sha) = {row}
        /\ GetCachedAnalysis(cache_table, row.document_hash, other.scoring_model_sha,
                             row.pipeline_git_sha) = {other}
        /\ GetCachedAnalysis(cache_table, row.document_hash, Absent,
                             row.pipeline_git_sha) = {row}

\* an analysis of the document of upload r has been completed and committed
\* under the hashes of upload r: an upload keyed on the same triple went
\* through analyze_report and its commit succeeded
AnalysisCommitted(r) ==
    \E q \in Uploads \ {r} : /\ upload[q] = upload[r]
                              /\ model_calls[q] > 0
                              /\ response[q] = "completed"

\* upload r has looked the cache up and is on the cache-hit branch
OnCacheHitBranch(r) ==
    /\ cache_entry[r] # {}
    /\ rpc[r] \in {"hit", "stored", "commit"}

TwoWriters(r, q) ==
    /\ r # q
    /\ upload[r] = upload[q]
    /\ analysis[r] # {} /\ analysis[q] # {}

\* C20: the cache upsert is atomic per key: under every interleaving of two
\* writers calling upsert_analysis_cache with the same triple at most one
\* cache entry of that triple exists, exactly one once a writer has finished,
\* and the commit of a writer that obtained its document analysis does not end
\* as a failure: it overwrites the entry or loses a benign race.
Orig_C20_AtomicUpsert ==
    [][ /\ \A row \in cache_table : \A other \in cache_table :
             ( /\ row.document_hash = other.document_hash
               /\ row.scoring_model_sha = other.scoring_model_sha
               /\ row.pipeline_git_sha = other.pipeline_git_sha ) => row = other
        /\ \A r \in Uploads : \A q \in Uploads :
             TwoWriters(r, q) =>
                /\ rpc[r] = "commit" => response'[r] # "failed"
                /\ rpc[r] = "done" =>
                      Cardinality(StoredUnder(upload[r].document_hash,
                                              upload[r].scoring_model_sha,
                                              upload[r].pipeline_git_sha)) = 1
      ]_vars

\* C21: if a stage of processing a document fails (model call, grounding,
\* normalization, feedback assembly, export writing or persistence), the
\* cache holds afterwards what it held before: the failing step changes no
\* entry and discards the write of the request, a failed request stays
\* failed, and every change of the table is the commit of a request that
\* ends "completed", on the live path and on the cache-hit path alike.
Thm_C21_FailureLeavesCache ==
    [][ /\ \A r \in Uploads :
             /\ rpc'[r] = "failed" =>
                   /\ pending'[r] = {}
                   /\ rpc[r] # "failed" => cache_table' = cache_table
             /\ rpc[r] = "failed" => rpc'[r] = "failed"
        /\ cache_table' # cache_table =>
             \E q \in Uploads : /\ rpc[q] = "commit"
                                /\ rpc'[q] = "done"
                                /\ response'[q] = "completed"
                                /\ pending[q] # {}
      ]_vars

\* requests have failed after their upsert_analysis_cache call on the live
\* path and on the cache-hit path, next to an entry that is still as the
\* request that completed wrote it
Wit_C21_FailureLeavesCache ==
    \E r \in Uploads : \E q \in Uploads : \E row \in cache_table :
        /\ r # q
        /\ upload[r] = upload[q]
        /\ rpc[r] = "failed" /\ analysis[r] # {}
        /\ response[q] = "completed"
        /\ analysis[q] = {RowPayloads(row)}
        /\ cache_table = {row}

----------------------------------------------------------------------------
(* Claims about the detected points as feedback assembly leaves them        *)

\* C26: detected points are immutable after detection: building the feedback
\* payload (sorting, deduplicating, assembling the overview) leaves every
\* field of every point of the DetectedPointsPayload it was given unchanged.
Orig_C26_PointsImmutable ==
    Built => payload_points = detected_points

----------------------------------------------------------------------------
(* Claims about the stored feedback payload (SpecCache)                     *)

\* C29: the feedback payload stored with a report names that report: after
\* upload_report completes for a report R, R.scoring_result.feedback_v11
\* carries report_id str(R.id), on the live path and on the cache-hit path
\* where the payload is taken from an entry written for an earlier report.
Orig_C29_FeedbackNamesReport ==
    \A r \in Uploads :
        response[r] = "completed" =>
            \A payloads \in analysis[r] : payloads.scoring_result.run = ReportId(r)

----------------------------------------------------------------------------
(* Claims about the scoring-model configuration (SpecRegistry)              *)

\* C24: the registry is loaded once and is read-only for the lifetime of the
\* process, so within one analysis the scoring-model hash placed in the cache
\* key is the hash of the very configuration content used to normalize the
\* cached score, even when the file is replaced while the analysis is running.
Orig_C24_KeyHashOfUsedConfiguration ==
    pc = "stored" => scoring_model_info.sha256 = Sha256OfText(loaded_text)

----------------------------------------------------------------------------
(* Claims about the status of a report (SpecReport)                         *)

\* the run is over and has produced no score: processing failed, or the
\* model output carried no score and no deduction resolved to a category
NoScoreProduced ==
    \/ pc \in {"failed", "dropped"}
    \/ /\ pc \in {"completed", "updated"}
       /\ "score_total" \notin DOMAIN input_output
       /\ ~has_deductions

\* C25: a report whose run has produced no score has status 'failed'; it is
\* neither left 'processing' nor 'completed' with the defaulted score 0
Orig_C25_ZeroNeverStandsForNoScore ==
    NoScoreProduced => report.status = "failed"

----------------------------------------------------------------------------
(* Claims about the credits of a user (SpecCredits)                         *)

\* C30: under every interleaving of uploads and admin adjustments for the
\* same user, the committed credit balance is never negative
Thm_C30_CreditsNeverNegative == credits >= 0

\* two first analyses were checked against the same balance of 12: the first
\* has committed its deduction, the second has sent the UPDATE it computed
\* from the balance it read before that commit
Wit_C30_CreditsNeverNegative ==
    /\ request[1] = [kind |-> "upload", amount |-> CreditsRequired(FALSE)]
    /\ request[2] = request[1]
    /\ cpc[1] = "done" /\ cpc[2] = "flushed"
    /\ credits = 2 /\ user_credits[2] = 2

----------------------------------------------------------------------------
(* Claims about the two execution paths (SpecPaths)                         *)

\* C22: the pipeline is deterministic whichever path runs it: from the same
\* extracted text the synchronous backend and the queue worker detect the
\* same points, field for field
Orig_C22_SamePointsOnBothPaths ==
    (dpc = "detected" /\ worker_detected # {}) => worker_detected = {detected}

====
